---------------------------- MODULE Spec2Model ----------------------------
(***************************************************************************)
(* A model of the GenomeRx collaboration front end                        *)
(* (frontend/src/App.jsx, frontend/src/components/ChatView.jsx).          *)
(*                                                                         *)
(* Strings that the code inspects (emails, passwords, message texts, ids)  *)
(* are sequences of one-character strings; a JavaScript value that may be  *)
(* null is a sequence of length 0 (null) or 1 (the value).                 *)
(* The clock advances in ticks of MsPerTick milliseconds; Date.now() is    *)
(* now * MsPerTick.                                                        *)
(***************************************************************************)
EXTENDS Integers, Sequences, FiniteSets, TLC

VARIABLES
    now,            \* the wall clock, in ticks
    users,          \* App: the accounts list (useState, App.jsx:135)
    user,           \* App: the session {name, role, email} or null (App.jsx:148)
    route,          \* App: the current route (App.jsx:149)
    mode,           \* Auth: "login" | "register" (App.jsx:398)
    attempts,       \* Login: failed attempts of the mounted form (App.jsx:417)
    lockedUntil,    \* Login: null or the lockout expiry in ms (App.jsx:418)
    locked,         \* Login: the value of `locked` at the last render (App.jsx:420)
    lockHist,       \* history: the latest lockout expiry set since the page was loaded
    tasks,          \* App: the tasks store (App.jsx:157)
    assigneeFilter, \* TasksView: assignee filter (App.jsx:1112)
    statusFilter,   \* TasksView: status filter (App.jsx:1113)
    showModal,      \* TasksView: the task modal is open (App.jsx:1110)
    editing,        \* TasksView: null or the task being edited (App.jsx:1111)
    chatState,      \* App: {channels, messages} (App.jsx:161)
    sel,            \* ChatView: the selected thread id (ChatView.jsx:18)
    threadMsgs,     \* ChatView: the memoised thread of the last render (ChatView.jsx:32)
    randomUUID,     \* the browser defines crypto.randomUUID (ChatView.jsx:43)
    error,          \* Login / Register: the error message of the mounted form (App.jsx:416)
    ok,             \* Register: the success message (App.jsx:484)
    profileErr,     \* ProfileView: the error message `err` (App.jsx:548)
    profileMsg,     \* ProfileView: the success message `msg` (App.jsx:547)
    notesMap,       \* App: the notes store, key -> {notes, tags} (App.jsx:154)
    items,          \* HistoryView: the rows fetched from the backend (App.jsx:985)
    editId,         \* HistoryView: null or the key being edited (App.jsx:991)
    notesOpen,      \* ResultsCard: the notes editor is open (App.jsx:801)
    events,         \* App: the events store (App.jsx:160)
    tz,             \* the local time zone, in minutes east of UTC
    cursor,         \* CalendarView: null or the cursor date, in minutes (ChatView.jsx:359)
    modal,          \* CalendarView: null or {initial} of the open event modal (ChatView.jsx:360)
    predictions,    \* App: the prediction history of the session (App.jsx:150)
    current,        \* App: null or the current prediction result (App.jsx:151)
    file,           \* UploadFlow: null or the selected file (App.jsx:669)
    uploadError,    \* UploadFlow: the error message (App.jsx:670)
    progress,       \* UploadFlow: the progress percentage (App.jsx:671)
    stage,          \* UploadFlow: "idle" | "uploading" | "predicting" | "done" (App.jsx:672)
    result,         \* UploadFlow: null or the result shown (App.jsx:673)
    runs,           \* the calls of UploadFlow.start that have not returned or have left
                    \* their interval timer running (App.jsx:692, 703)
    loginRole       \* Login: the value of the "Login as" selector (App.jsx:415)

vars == <<now, users, user, route, mode, attempts, lockedUntil, locked, lockHist,
          tasks, assigneeFilter, statusFilter, showModal, editing, chatState, sel,
          threadMsgs, randomUUID, error, ok, profileErr, profileMsg, notesMap, items, editId,
          notesOpen, events, tz, cursor, modal, predictions, current, file,
          uploadError, progress, stage, result, runs, loginRole>>

authVars == <<mode, attempts, lockedUntil, locked, lockHist, error, ok, loginRole>>
taskVars == <<tasks, assigneeFilter, statusFilter, showModal, editing>>
chatVars == <<chatState, sel, threadMsgs, randomUUID>>
\* the stores of App that the task board, the chat and the accounts screens never write
storeVars == <<notesMap, events, tz, predictions, current>>
\* the local state of ProfileView, HistoryView, ResultsCard, CalendarView and UploadFlow
profVars == <<profileErr, profileMsg>>
histVars == <<items, editId>>
calVars == <<cursor, modal>>
upVars == <<notesOpen, file, uploadError, progress, stage, result, runs>>
viewVars == <<profVars, histVars, calVars, upVars>>

---------------------------------------------------------------------------
(* Bounds of the model *)

MaxNow == 5      \* the last tick of the clock on the authentication screen
MaxUsers == 3    \* accounts in the accounts list
MaxClock == 1    \* the last tick of the clock on the task board and in the chat
MaxTasks == 2    \* tasks in the store
MaxMsgs == 2     \* messages in the chat log
MaxRows == 3     \* rows of the prediction history that the backend returns
MaxMonth == 26   \* the last month the calendar cursor moves to, counted from January 1970
MaxEvents == 2   \* events in the store
MaxRuns == 2     \* calls of start that are running or have left a timer behind
MaxPreds == 2    \* results in the prediction history
MaxPct == 20     \* the percentage up to which the model follows an interval timer

---------------------------------------------------------------------------
(* Strings *)

Null == <<>>
Some(x) == <<x>>

\* The characters the model uses, in ascending order of their UTF-16 code unit.
Alphabet ==
    <<" ", ",", ".", "0", "1", "2", "3", "4", "5", "6", "7", "8", "9", ":", "@",
      "A", "D", "L", "M", "N", "T", "a", "c", "d", "e", "g", "h", "i", "l", "m", "n",
      "o", "p", "r", "t", "u", "x", "|">>

Code(c) == CHOOSE i \in 1..Len(Alphabet) : Alphabet[i] = c

\* String.prototype.toLowerCase, one character
LowerChar(c) ==
    CASE c = "A" -> "a"
      [] c = "D" -> "d"
      [] c = "L" -> "l"
      [] c = "M" -> "m"
      [] c = "N" -> "n"
      [] c = "T" -> "t"
      [] OTHER -> c

toLowerCase(s) == [i \in 1..Len(s) |-> LowerChar(s[i])]

\* s < t in the order Array.prototype.sort uses by default (code units)
RECURSIVE StrLess(_, _)
StrLess(s, t) ==
    IF t = <<>> THEN FALSE
    ELSE IF s = <<>> THEN TRUE
    ELSE IF Code(Head(s)) # Code(Head(t)) THEN Code(Head(s)) < Code(Head(t))
    ELSE StrLess(Tail(s), Tail(t))

IsSpace(c) == c = " "

\* String.prototype.trim
RECURSIVE TrimLeft(_)
TrimLeft(s) ==
    IF s # <<>> /\ IsSpace(Head(s)) THEN TrimLeft(Tail(s)) ELSE s

RECURSIVE TrimRight(_)
TrimRight(s) ==
    IF s # <<>> /\ IsSpace(s[Len(s)]) THEN TrimRight(SubSeq(s, 1, Len(s) - 1)) ELSE s

\* trim, mutated: only leading white space is removed
trimMut(s) == TrimLeft(s)

trim(s) == TrimRight(TrimLeft(s))

Digit(d) == Alphabet[Code("0") + d]

\* String(n) for an integer n >= 0
RECURSIVE String(_)
String(n) ==
    IF n < 10 THEN <<Digit(n)>> ELSE Append(String(n \div 10), Digit(n % 10))

---------------------------------------------------------------------------
(* Time *)

MsPerTick == 20 * 60 * 1000
MsPerDay == 24 * 60 * 60 * 1000

\* Date.now(). Two events may read the same value: the clock need not have advanced
\* between them (and a wall clock can be set back to a value it has had).
DateNow == now * MsPerTick

\* Date.prototype.toISOString: the calendar day and the time within the day
toISOString(ms) == <<ms \div MsPerDay, ms % MsPerDay>>

\* new Date(isoString), as its millisecond value
DateOf(iso) == iso[1] * MsPerDay + iso[2]

\* the lockout duration, 60 * 60 * 1000 ms
LockoutMs == 60 * 60 * 1000

---------------------------------------------------------------------------
(* Calendar dates.  The calendar reads only the year, month, date and week day of its
   Date objects, so a Date of the calendar is its time value in whole minutes since
   1970-01-01T00:00Z; the local time zone is z minutes east of UTC
   (getTimezoneOffset() = -z).  Months are numbered 0..11 as in getMonth(). *)

MsPerMin == 60 * 1000
MinPerDay == 24 * 60

\* new Date(), in minutes
DateNew == DateNow \div MsPerMin

\* the years that the day numbers of the model fall into
Years == 1969..1973

IsLeap(y) == (y % 4 = 0 /\ y % 100 # 0) \/ y % 400 = 0

DaysInYear(y) == IF IsLeap(y) THEN 366 ELSE 365

DaysInMonth(y, m) ==
    IF m = 1 THEN (IF IsLeap(y) THEN 29 ELSE 28)
    ELSE IF m \in {3, 5, 8, 10} THEN 30 ELSE 31

\* the day number (days since 1970-01-01) of January 1st of year y
RECURSIVE DaysBeforeYear(_)
DaysBeforeYear(y) ==
    IF y = 1970 THEN 0
    ELSE IF y > 1970 THEN DaysBeforeYear(y - 1) + DaysInYear(y - 1)
    ELSE DaysBeforeYear(y + 1) - DaysInYear(y)

\* the days of year y before its month m
RECURSIVE DaysBeforeMonth(_, _)
DaysBeforeMonth(y, m) ==
    IF m = 0 THEN 0 ELSE DaysBeforeMonth(y, m - 1) + DaysInMonth(y, m - 1)

\* MakeDay(year, month) + date - 1 of ECMAScript: month and date may be out of range
DayNumber(y, m, d) ==
    LET yy == y + (m \div 12)
        mm == m % 12
    IN  DaysBeforeYear(yy) + DaysBeforeMonth(yy, mm) + d - 1

\* the year, month and date of day number n
YearOfDay(n) == CHOOSE y \in Years : DaysBeforeYear(y) <= n /\ n < DaysBeforeYear(y + 1)
MonthOfDay(n) ==
    LET y == YearOfDay(n)
        k == n - DaysBeforeYear(y)
    IN  CHOOSE m \in 0..11 : DaysBeforeMonth(y, m) <= k /\ k < DaysBeforeMonth(y, m + 1)
DateOfDay(n) ==
    LET y == YearOfDay(n) IN n - DaysBeforeYear(y) - DaysBeforeMonth(y, MonthOfDay(n)) + 1

\* the local day number of a Date
LocalDay(t, z) == (t + z) \div MinPerDay

\* new Date(year, month, date): local midnight of the normalised day
NewDate(y, m, d, z) == DayNumber(y, m, d) * MinPerDay - z

getFullYear(t, z) == YearOfDay(LocalDay(t, z))
getMonth(t, z) == MonthOfDay(LocalDay(t, z))
getDate(t, z) == DateOfDay(LocalDay(t, z))
\* the day of the week, 0 = Sunday; 1970-01-01 was a Thursday
getDay(t, z) == (LocalDay(t, z) + 4) % 7

\* a YYYY-MM-DD string is the triple <<year, month 1..12, date>>; strings of this form
\* compare as their triples do
YMD(n) == <<YearOfDay(n), MonthOfDay(n) + 1, DateOfDay(n)>>

\* fmtYMD = d.toISOString().slice(0, 10): the UTC calendar date
fmtYMD(t) == YMD(t \div MinPerDay)
startOfMonth(t, z) == NewDate(getFullYear(t, z), getMonth(t, z), 1, z)
endOfMonth(t, z) == NewDate(getFullYear(t, z), getMonth(t, z) + 1, 0, z)
addDays(t, n, z) == NewDate(getFullYear(t, z), getMonth(t, z), getDate(t, z) + n, z)

\* the first cell of the month grid, mutated: one week before the month starts
gridStartMut(c, z) == addDays(startOfMonth(c, z), -7, z)

\* gridStart = addDays(mStart, -((mStart.getDay() + 7) % 7))
gridStart(c, z) ==
    LET mStart == startOfMonth(c, z) IN addDays(mStart, -((getDay(mStart, z) + 7) % 7), z)

\* days: the 42 cells of the month grid of cursor c
days(c, z) == LET first == gridStart(c, z) IN [i \in 1..42 |-> addDays(first, i - 1, z)]

\* todays = eventsByDay[fmtYMD(day)] || []: the events attached to the cell of `day`
todays(evs, day) == LET OnDay(ev) == ev.date = fmtYMD(day) IN SelectSeq(evs, OnDay)

\* CalendarView.upsertEvent, as the updater of setEvents: payload is what EventModal.save
\* hands over, cu the session, ms the value of Date.now()
upsertEvent(prev, payload, cu, ms) ==
    IF payload.id # Null
    THEN LET Upd(e) ==
                 IF e.id = payload.id[1]
                 THEN [e EXCEPT !.title = payload.title, !.date = payload.date,
                                !.timeStart = payload.timeStart, !.timeEnd = payload.timeEnd,
                                !.location = payload.location,
                                !.attendees = payload.attendees,
                                !.description = payload.description,
                                !.updatedAt = toISOString(ms)]
                 ELSE e
         IN  [i \in 1..Len(prev) |-> Upd(prev[i])]
    ELSE <<[id |-> String(ms), title |-> payload.title, date |-> payload.date,
            timeStart |-> payload.timeStart, timeEnd |-> payload.timeEnd,
            location |-> payload.location, attendees |-> payload.attendees,
            description |-> payload.description, createdAt |-> toISOString(ms),
            updatedAt |-> toISOString(ms), createdBy |-> cu.email]>> \o prev

\* CalendarView.removeEvent, as the updater of setEvents
removeEvent(prev, id) == LET Keep(e) == e.id # id IN SelectSeq(prev, Keep)

\* the months between January 1970 and the local month of a Date
MonthIndex(t, z) == (getFullYear(t, z) - 1970) * 12 + getMonth(t, z)

---------------------------------------------------------------------------
(* Array helpers; Array.prototype.filter is SelectSeq *)

\* the first element of an array, or null: what Array.prototype.find returns when
\* `hits` are the elements that satisfy its predicate
First(hits) == IF hits = <<>> THEN Null ELSE Some(hits[1])

Range(s) == {s[i] : i \in 1..Len(s)}

\* String.prototype.split(sep) for a one-character separator
RECURSIVE Split(_, _)
Split(s, sep) ==
    IF \A i \in 1..Len(s) : s[i] # sep
    THEN <<s>>
    ELSE LET i == CHOOSE k \in 1..Len(s) : s[k] = sep /\ \A j \in 1..(k - 1) : s[j] # sep
         IN  <<SubSeq(s, 1, i - 1)>> \o Split(SubSeq(s, i + 1, Len(s)), sep)

\* Array.prototype.join(sep)
RECURSIVE Join(_, _)
Join(parts, sep) ==
    IF parts = <<>> THEN <<>>
    ELSE IF Len(parts) = 1 THEN parts[1]
    ELSE parts[1] \o sep \o Join(Tail(parts), sep)

\* Array.from(new Set(parts)), mutated: duplicates are kept
DedupMut(parts) == parts

\* Array.from(new Set(parts)): a Set keeps the first insertion of each value
RECURSIVE Dedup(_)
Dedup(parts) ==
    IF parts = <<>> THEN <<>>
    ELSE LET front == Dedup(SubSeq(parts, 1, Len(parts) - 1))
             last == parts[Len(parts)]
         IN  IF last \in Range(front) THEN front ELSE Append(front, last)

\* tagsInput.split(",").map(t => t.trim()).filter(Boolean), de-duplicated
TagsOf(tagsInput) ==
    LET pieces == Split(tagsInput, ",")
        trimmed == [i \in 1..Len(pieces) |-> trim(pieces[i])]
        NonEmpty(t) == t # <<>>
    IN  Dedup(SelectSeq(trimmed, NonEmpty))

\* notesMap[id] || { notes: "", tags: [] }
EntryOf(nm, id) == IF id \in DOMAIN nm THEN nm[id] ELSE [notes |-> <<>>, tags |-> <<>>]

\* { ...prev, [id]: val }, mutated: the other entries are dropped
PutMut(prev, id, val) == [k \in {id} |-> val]

\* { ...prev, [id]: val }
Put(prev, id, val) == [k \in DOMAIN prev \cup {id} |-> IF k = id THEN val ELSE prev[k]]

\* what NotesModal.save hands to onSave
NotesPayload(notes, tagsInput) == [notes |-> trim(notes), tags |-> TagsOf(tagsInput)]

\* the content of the tags field when NotesModal is mounted with entry `initial`
TagsPrefill(initial) == Join(initial.tags, <<",", " ">>)

\* rowId = (r) => `${r.fileName}|${r.date}`
rowId(r) == r.fileName \o <<"|">> \o r.date

---------------------------------------------------------------------------
(* Accounts *)

Roles == {"Admin", "Doctor", "Researcher", "Lab Staff"}

\* the calendar roles, mutated: every role is admitted
CalendarRolesMut == Roles

\* the roles that MainRouter, CalendarView and the nav entry admit to the calendar
CalendarRoles == {"Admin", "Doctor", "Researcher"}

AdminEmail == <<"a", "d", "m", "i", "n", "@", "x">>
AdminPassword == <<"A", "d", "m", "i", "n", "@", "1", "2", "3">>

\* the seed of the accounts list on first run
SeedUsers ==
    << [email |-> AdminEmail, password |-> AdminPassword, name |-> <<"A">>,
        role |-> "Admin", active |-> TRUE] >>

\* inputs of the authentication forms
DocEmail == <<"d", "@", "x">>
LabEmail == <<"l", "@", "x">>
Pw6 == <<"p", "a", "t", "h", "o", "1">>
Pw5 == <<"p", "a", "t", "h", "o">>

LoginEmails == {AdminEmail, DocEmail}
LoginPasswords == {AdminPassword, Pw6}
RegisterEmails == {AdminEmail, DocEmail, LabEmail}
RegisterPasswords == {Pw6, Pw5}
RegisterNames == {<<"D">>}

\* the session object that onLogin receives (App.jsx:436)
SessionOfMut(found) == [name |-> found.name, role |-> loginRole, email |-> found.email]

SessionOf(found) == [name |-> found.name, role |-> found.role, email |-> found.email]

---------------------------------------------------------------------------
(* Chat: thread ids and threads (ChatView.jsx) *)

General == <<"g", "e", "n", "e", "r", "a", "l">>

\* [x, y].sort() of two strings
SortPair(x, y) == IF StrLess(y, x) THEN <<y, x>> ELSE <<x, y>>

\* dmKey, mutated: the two emails are not sorted
dmKeyMut(a, b) ==
    <<"d", "m", ":">> \o toLowerCase(a) \o <<"|">> \o toLowerCase(b)

\* dmKey = (a, b) => `dm:${[a.toLowerCase(), b.toLowerCase()].sort().join("|")}`
dmKey(a, b) ==
    LET pair == SortPair(toLowerCase(a), toLowerCase(b))
    IN  <<"d", "m", ":">> \o pair[1] \o <<"|">> \o pair[2]

\* the comparator, mutated: descending
CmpTsMut(a, b) == DateOf(b.ts) - DateOf(a.ts)

\* the comparator (a, b) => new Date(a.ts) - new Date(b.ts)
CmpTs(a, b) == DateOf(a.ts) - DateOf(b.ts)

\* x put into the sorted list s behind every element that does not compare greater
RECURSIVE InsertSorted(_, _)
InsertSorted(s, x) ==
    IF s = <<>> THEN <<x>>
    ELSE IF CmpTs(s[Len(s)], x) <= 0 THEN Append(s, x)
    ELSE Append(InsertSorted(SubSeq(s, 1, Len(s) - 1), x), s[Len(s)])

\* Array.prototype.sort with CmpTs (a stable sort)
RECURSIVE SortByTs(_)
SortByTs(s) ==
    IF s = <<>> THEN <<>>
    ELSE InsertSorted(SortByTs(SubSeq(s, 1, Len(s) - 1)), s[Len(s)])

\* threadMsgs: the messages of the active thread, sorted by timestamp
ThreadOf(messages, activeId) ==
    LET InThread(m) == m.channelId = activeId
    IN  SortByTs(SelectSeq(messages, InThread))

\* peers: the other accounts that are not deactivated
Peers(us, cu) ==
    LET IsPeer(u) == u.email # cu.email /\ u.active # FALSE IN SelectSeq(us, IsPeer)

---------------------------------------------------------------------------
(* Task Board: pure parts of TasksView (App.jsx) *)

Statuses == {"Pending", "In Progress", "Done"}

\* labStaff: the active Lab Staff accounts
LabStaffOfMut(us) ==
    LET IsLab(u) == u.role = "Lab Staff" IN SelectSeq(us, IsLab)

LabStaffOf(us) ==
    LET IsLab(u) == u.role = "Lab Staff" /\ u.active # FALSE IN SelectSeq(us, IsLab)

canAssign(cu) == cu.role # "Lab Staff"

\* visibleTasks, mutated: no role gate
VisibleTasksMut(ts, cu, af, sf) ==
    LET Shown(t) ==
            /\ (IF af # <<>> THEN t.assignee = af ELSE TRUE)
            /\ (IF sf # "" THEN t.status = sf ELSE TRUE)
    IN  SelectSeq(ts, Shown)

\* visibleTasks
VisibleTasks(ts, cu, af, sf) ==
    LET Shown(t) ==
            /\ (IF cu.role = "Lab Staff" THEN t.assignee = cu.email ELSE TRUE)
            /\ (IF af # <<>> THEN t.assignee = af ELSE TRUE)
            /\ (IF sf # "" THEN t.status = sf ELSE TRUE)
    IN  SelectSeq(ts, Shown)

canEditTask(cu, t) ==
    cu.role = "Admin" \/ (canAssign(cu) /\ t.createdBy = cu.email)

\* upsertTask: the next tasks store; `task` is the modal's payload, ms is Date.now()
upsertTask(prev, task, cu, ms) ==
    IF task.id # Null
    THEN LET Upd(x) ==
                 IF x.id = task.id[1]
                 THEN [x EXCEPT !.title = task.title,
                                !.description = task.description,
                                !.assignee = task.assignee,
                                !.priority = task.priority,
                                !.due = task.due,
                                !.status = task.status,
                                !.updatedAt = toISOString(ms)]
                 ELSE x
         IN  [i \in 1..Len(prev) |-> Upd(prev[i])]
    ELSE << [id |-> String(ms),
             title |-> task.title,
             description |-> task.description,
             assignee |-> task.assignee,
             priority |-> task.priority,
             due |-> task.due,
             status |-> task.status,
             createdAt |-> toISOString(ms),
             updatedAt |-> toISOString(ms),
             createdBy |-> cu.email] >> \o prev

removeTask(prev, id) ==
    LET Keep(t) == t.id # id IN SelectSeq(prev, Keep)

updateStatus(prev, id, status, ms) ==
    LET Upd(t) ==
            IF t.id = id
            THEN [t EXCEPT !.status = status, !.updatedAt = toISOString(ms)]
            ELSE t
    IN  [i \in 1..Len(prev) |-> Upd(prev[i])]

---------------------------------------------------------------------------
(* Mounting of the views *)

\* The local state of TasksView and ChatView when route r has been rendered for
\* the session sess (null when nobody is logged in): a view that is mounted starts from its
\* useState initial values, one that is not mounted has none.
ViewsFresh(r, sess) ==
    /\ assigneeFilter' = IF r = "tasks" /\ sess # Null /\ sess[1].role = "Lab Staff"
                         THEN sess[1].email
                         ELSE <<>>
    /\ statusFilter' = ""
    /\ showModal' = FALSE
    /\ editing' = Null
    /\ sel' = General
    /\ threadMsgs' = IF r = "chat" THEN ThreadOf(chatState.messages, General) ELSE <<>>
    /\ profileErr' = ""
    /\ profileMsg' = ""
    /\ items' = <<>>
    /\ editId' = Null
    /\ notesOpen' = FALSE
    /\ cursor' = IF r = "calendar" /\ sess # Null /\ sess[1].role \in CalendarRoles
                  THEN Some(DateNew)
                  ELSE Null
    /\ modal' = Null
    /\ file' = Null
    /\ uploadError' = ""
    /\ progress' = 0
    /\ stage' = "idle"
    /\ result' = Null
    /\ runs' = [i \in 1..Len(runs) |-> [runs[i] EXCEPT !.live = FALSE]]

\* a modal dialog (fixed inset-0) covers the shell: the task modal, a notes modal or the
\* event modal
Overlay == showModal \/ editId # Null \/ notesOpen \/ modal # Null

---------------------------------------------------------------------------
(* Auth: Login and Register *)

\* App renders <Auth> unless a user is logged in and the route is not "login"
AuthShown == ~(user # Null /\ route # "login")

\* `lockedUntil && Date.now() < lockedUntil`, mutated: the comparison reversed
LockedAtMut(lu, t) == lu # Null /\ t > lu[1]

\* `lockedUntil && Date.now() < lockedUntil`
LockedAt(lu, t) == lu # Null /\ t < lu[1]

\* users.find(u => u.email === email && u.password === pass)
FindAccount(us, email, pass) ==
    LET Match(u) == u.email = email /\ u.password = pass IN First(SelectSeq(us, Match))

\* The state of a Login component that has just been mounted (or is unmounted).
LoginFresh ==
    /\ attempts' = 0
    /\ lockedUntil' = Null
    /\ locked' = FALSE
    /\ error' = ""
    /\ ok' = ""
    /\ loginRole' = "Doctor"

\* Login.submit
LoginSubmit(email, pass) ==
    /\ AuthShown
    /\ mode = "login"
    /\ IF locked
       THEN UNCHANGED vars
       ELSE LET found == FindAccount(users, email, pass) IN
            IF found = Null
            THEN /\ attempts' = attempts + 1
                 /\ lockedUntil' = IF attempts + 1 >= 3
                                   THEN Some(DateNow + LockoutMs)
                                   ELSE lockedUntil
                 /\ locked' = LockedAt(lockedUntil', DateNow)
                 /\ lockHist' = IF attempts + 1 >= 3
                                THEN Some(DateNow + LockoutMs)
                                ELSE lockHist
                 /\ error' = "Invalid email or password"
                 /\ UNCHANGED <<now, storeVars, viewVars,
                                users, user, route, mode, ok, loginRole, taskVars,
                                chatVars>>
            ELSE IF found[1].active = FALSE
            THEN /\ locked' = LockedAt(lockedUntil, DateNow)
                 /\ error' = "This account is deactivated. Contact admin."
                 /\ UNCHANGED <<now, storeVars, viewVars,
                                users, user, route, mode, attempts, lockedUntil,
                                lockHist, ok, loginRole, taskVars, chatVars>>
            ELSE \* onLogin: the session starts and Auth (with Login) is unmounted
                 /\ user' = Some(SessionOf(found[1]))
                 /\ route' = "dashboard"
                 /\ LoginFresh
                 /\ UNCHANGED <<now, storeVars, viewVars,
                                users, mode, lockHist, taskVars, chatVars>>

\* typing in a field of the login form: the form is rendered again
LoginType ==
    /\ AuthShown
    /\ mode = "login"
    /\ locked' = LockedAt(lockedUntil, DateNow)
    /\ UNCHANGED <<now, storeVars, viewVars,
                   users, user, route, mode, attempts, lockedUntil, lockHist,
                   error, ok, loginRole, taskVars, chatVars>>

\* the "Login as" selector is set to r: setRole(r), and the form is rendered again
SelectRole(r) ==
    /\ AuthShown
    /\ mode = "login"
    /\ r # loginRole
    /\ loginRole' = r
    /\ locked' = LockedAt(lockedUntil, DateNow)
    /\ UNCHANGED <<now, storeVars, viewVars,
                   users, user, route, mode, attempts, lockedUntil, lockHist,
                   error, ok, taskVars, chatVars>>

\* onGoRegister: Login is unmounted and Register mounted
GoRegister ==
    /\ AuthShown
    /\ mode = "login"
    /\ mode' = "register"
    /\ LoginFresh
    /\ UNCHANGED <<now, storeVars, viewVars,
                   users, user, route, lockHist, taskVars, chatVars>>

\* onGoLogin: Register is unmounted and a new Login mounted
GoLogin ==
    /\ AuthShown
    /\ mode = "register"
    /\ mode' = "login"
    /\ LoginFresh
    /\ UNCHANGED <<now, storeVars, viewVars,
                   users, user, route, lockHist, taskVars, chatVars>>

\* users.some(u => u.email === email), mutated: no email is found
EmailTakenMut(us, email) == FALSE

\* users.some(u => u.email === email)
EmailTaken(us, email) == \E i \in 1..Len(us) : us[i].email = email

\* Register.submit
RegisterSubmit(name, email, pass, role) ==
    /\ AuthShown
    /\ mode = "register"
    /\ IF EmailTaken(users, email)
       THEN /\ error' = "Email already exists"
            /\ ok' = ""
            /\ UNCHANGED users
       ELSE IF Len(pass) < 6
       THEN /\ error' = "Password must be >= 6 characters"
            /\ ok' = ""
            /\ UNCHANGED users
       ELSE /\ Len(users) < MaxUsers
            /\ users' = Append(users, [name |-> name, email |-> email, password |-> pass,
                                       role |-> role, active |-> TRUE])
            /\ error' = ""
            /\ ok' = "Account created. You can sign in now."
    /\ UNCHANGED <<now, storeVars, viewVars, user, route, mode, attempts, lockedUntil,
                   locked, lockHist, loginRole, taskVars, chatVars>>

\* handleLogout: the shell is unmounted and a new Auth (mode "login") mounted
Logout ==
    /\ ~AuthShown
    /\ ~Overlay
    /\ user' = Null
    /\ route' = "login"
    /\ mode' = "login"
    /\ LoginFresh
    /\ ViewsFresh("login", Null)
    /\ UNCHANGED <<now, users, lockHist, tasks, chatState, randomUUID, storeVars>>


---------------------------------------------------------------------------
(* Navigation (AppShell nav, MainRouter) *)

Me == user[1]

\* the keys of the nav entries that AppShell renders for a role
NavKeys(role) ==
    {"dashboard", "upload", "history", "tasks", "chat", "profile"}
        \cup (IF role \in CalendarRoles THEN {"calendar"} ELSE {})
        \cup (IF role = "Admin" THEN {"admin"} ELSE {})

\* onNavigate(key): the view of the old route is unmounted, that of the new one mounted
Navigate(r) ==
    /\ ~AuthShown
    /\ ~Overlay
    /\ r \in NavKeys(Me.role)
    /\ r # route
    /\ route' = r
    /\ ViewsFresh(r, user)
    /\ UNCHANGED <<now, users, user, authVars, tasks, chatState, randomUUID, storeVars>>

---------------------------------------------------------------------------
(* Task Board actions (TasksView, TaskModal) *)

TitleInputs == {<<"T">>, <<" ">>}

TasksShown == ~AuthShown /\ route = "tasks"

\* the rows of the table
Rows ==
    IF TasksShown THEN Range(VisibleTasks(tasks, Me, assigneeFilter, statusFilter)) ELSE {}

\* the options of the assignee filter for a session that is not Lab Staff
AssigneeFilterOptions == {<<>>} \cup {u.email : u \in Range(LabStaffOf(users))}

SetAssigneeFilter(f) ==
    /\ TasksShown
    /\ ~showModal
    /\ Me.role # "Lab Staff"
    /\ f \in AssigneeFilterOptions
    /\ f # assigneeFilter
    /\ assigneeFilter' = f
    /\ UNCHANGED <<now, storeVars, viewVars,
                   users, user, route, authVars, tasks, statusFilter, showModal,
                   editing, chatVars>>

SetStatusFilter(f) ==
    /\ TasksShown
    /\ ~showModal
    /\ f \in {""} \cup Statuses
    /\ f # statusFilter
    /\ statusFilter' = f
    /\ UNCHANGED <<now, storeVars, viewVars,
                   users, user, route, authVars, tasks, assigneeFilter, showModal,
                   editing, chatVars>>

\* the "New Task" button
OpenNewTask ==
    /\ TasksShown
    /\ ~showModal
    /\ canAssign(Me)
    /\ editing' = Null
    /\ showModal' = TRUE
    /\ UNCHANGED <<now, storeVars, viewVars,
                   users, user, route, authVars, tasks, assigneeFilter, statusFilter,
                   chatVars>>

\* the "Edit" button of a row
OpenEditTask(t) ==
    /\ TasksShown
    /\ ~showModal
    /\ t \in Rows
    /\ canEditTask(Me, t)
    /\ editing' = Some(t)
    /\ showModal' = TRUE
    /\ UNCHANGED <<now, storeVars, viewVars,
                   users, user, route, authVars, tasks, assigneeFilter, statusFilter,
                   chatVars>>

\* the modal's "Close" button
CloseModal ==
    /\ TasksShown
    /\ showModal
    /\ showModal' = FALSE
    /\ editing' = Null
    /\ UNCHANGED <<now, storeVars, viewVars,
                   users, user, route, authVars, tasks, assigneeFilter, statusFilter,
                   chatVars>>

\* the initial value of the modal's assignee field
DefaultAssignee ==
    IF editing # Null /\ editing[1].assignee # <<>> THEN editing[1].assignee
    ELSE IF LabStaffOf(users) # <<>> THEN LabStaffOf(users)[1].email
    ELSE <<>>

\* the values the modal's assignee field can hold
AssigneeInputs == {DefaultAssignee} \cup {u.email : u \in Range(LabStaffOf(users))}

\* TaskModal.save with the title, assignee and status fields as entered (the other
\* fields keep their initial values), then TasksView's onSave
SaveModal(title, assignee, status) ==
    /\ TasksShown
    /\ showModal
    /\ assignee \in AssigneeInputs
    /\ IF trim(title) = <<>>
       THEN UNCHANGED vars
       ELSE IF assignee = <<>>
       THEN UNCHANGED vars
       ELSE LET payload ==
                    [id |-> IF editing # Null THEN Some(editing[1].id) ELSE Null,
                     title |-> trim(title),
                     description |-> IF editing # Null THEN trim(editing[1].description)
                                     ELSE <<>>,
                     assignee |-> assignee,
                     priority |-> IF editing # Null THEN editing[1].priority ELSE "Medium",
                     due |-> IF editing # Null THEN editing[1].due ELSE <<>>,
                     status |-> status]
            IN  /\ editing = Null => Len(tasks) < MaxTasks
                /\ tasks' = upsertTask(tasks, payload, Me, DateNow)
                /\ showModal' = FALSE
                /\ editing' = Null
                /\ UNCHANGED <<now, storeVars, viewVars,
                               users, user, route, authVars, assigneeFilter,
                               statusFilter, chatVars>>

\* the "Delete" button of a row
RemoveTask(t) ==
    /\ TasksShown
    /\ ~showModal
    /\ t \in Rows
    /\ canEditTask(Me, t)
    /\ tasks' = removeTask(tasks, t.id)
    /\ UNCHANGED <<now, storeVars, viewVars,
                   users, user, route, authVars, assigneeFilter, statusFilter,
                   showModal, editing, chatVars>>

\* the status select of a row (rendered for Lab Staff only)
SelectStatus(t, status) ==
    /\ TasksShown
    /\ ~showModal
    /\ Me.role = "Lab Staff"
    /\ t \in Rows
    /\ status # t.status
    /\ tasks' = updateStatus(tasks, t.id, status, DateNow)
    /\ UNCHANGED <<now, storeVars, viewVars,
                   users, user, route, authVars, assigneeFilter, statusFilter,
                   showModal, editing, chatVars>>

\* the "Done" button of a row (rendered for Lab Staff while the task is not done)
MarkDone(t) ==
    /\ TasksShown
    /\ ~showModal
    /\ Me.role = "Lab Staff"
    /\ t \in Rows
    /\ t.status # "Done"
    /\ tasks' = updateStatus(tasks, t.id, "Done", DateNow)
    /\ UNCHANGED <<now, storeVars, viewVars,
                   users, user, route, authVars, assigneeFilter, statusFilter,
                   showModal, editing, chatVars>>

---------------------------------------------------------------------------
(* Chat actions (ChatView) *)

ChatShown == ~AuthShown /\ route = "chat"

TextInputs == {<<>>, <<" ">>, <<" ", "h", "i", " ">>}

\* crypto.randomUUID(): a value that no stored message has as its id
UUID == <<"u">> \o String(Len(chatState.messages))

\* crypto.randomUUID ? crypto.randomUUID() : String(Date.now())
MsgId == IF randomUUID THEN UUID ELSE String(DateNow)

\* the thread buttons of the left list
ThreadIds ==
    IF ChatShown
    THEN {General} \cup {dmKey(Me.email, p.email) : p \in Range(Peers(users, Me))}
    ELSE {}

\* a thread button: setSel, and the thread is computed for the new selection
SelectThread(id) ==
    /\ ChatShown
    /\ id \in ThreadIds
    /\ id # sel
    /\ sel' = id
    /\ threadMsgs' = ThreadOf(chatState.messages, id)
    /\ UNCHANGED <<now, storeVars, viewVars,
                   users, user, route, authVars, taskVars, chatState, randomUUID>>

\* the message list after send's setChatState, mutated: the message is put in front
PostedMut(messages, msg) == <<msg>> \o messages

\* the message list after send's setChatState: [...(prev.messages || []), msg]
Posted(messages, msg) == messages \o <<msg>>

\* send, with `text` the content of the composer
Send(text) ==
    /\ ChatShown
    /\ LET t == trim(text) IN
       IF t = <<>>
       THEN UNCHANGED vars
       ELSE LET msg == [id |-> MsgId,
                        channelId |-> sel,
                        text |-> t,
                        ts |-> toISOString(DateNow),
                        user |-> [email |-> Me.email, name |-> Me.name, role |-> Me.role]]
            IN  /\ Len(chatState.messages) < MaxMsgs
                /\ chatState' = [chatState EXCEPT !.messages = Posted(chatState.messages, msg)]
                /\ threadMsgs' = ThreadOf(chatState'.messages, sel)
                /\ UNCHANGED <<now, storeVars, viewVars,
                               users, user, route, authVars, taskVars, sel, randomUUID>>

---------------------------------------------------------------------------
(* Profile and Admin actions (ProfileView, AdminView) *)

NameInputs == {<<"N">>, <<" ">>}

\* ProfileView.saveName
SaveName(name) ==
    /\ ~AuthShown
    /\ route = "profile"
    /\ IF trim(name) = <<>>
       THEN /\ profileErr' = "Name is required"
            /\ profileMsg' = ""
            /\ UNCHANGED <<users, user>>
       ELSE LET Upd(u) == IF u.email = Me.email THEN [u EXCEPT !.name = trim(name)] ELSE u
            IN  /\ users' = [i \in 1..Len(users) |-> Upd(users[i])]
                /\ user' = Some([Me EXCEPT !.name = trim(name)])
                /\ profileErr' = ""
                /\ profileMsg' = "Profile updated."
    /\ UNCHANGED <<now, storeVars, histVars, calVars, upVars, route, authVars,
                   taskVars, chatVars>>

\* the updater of changePassword, mutated: every account gets the new password
WithPasswordMut(prev, email, npw) ==
    [i \in 1..Len(prev) |-> [prev[i] EXCEPT !.password = npw]]

\* prev.map(u => u.email === email ? { ...u, password: npw } : u)
WithPassword(prev, email, npw) ==
    LET Upd(u) == IF u.email = email THEN [u EXCEPT !.password = npw] ELSE u
    IN  [i \in 1..Len(prev) |-> Upd(prev[i])]

\* ProfileView.changePassword, the fields holding cur, npw and cpw
ChangePassword(cur, npw, cpw) ==
    /\ ~AuthShown
    /\ route = "profile"
    /\ LET IsMe(u) == u.email = Me.email
           me == First(SelectSeq(users, IsMe))
       IN  IF me = Null \/ me[1].password # cur
           THEN /\ profileErr' = "Current password is incorrect"
                /\ profileMsg' = ""
                /\ UNCHANGED users
           ELSE IF Len(npw) < 6
           THEN /\ profileErr' = "New password must be >= 6 characters"
                /\ profileMsg' = ""
                /\ UNCHANGED users
           ELSE IF npw # cpw
           THEN /\ profileErr' = "New passwords do not match"
                /\ profileMsg' = ""
                /\ UNCHANGED users
           ELSE /\ users' = WithPassword(users, Me.email, npw)
                /\ profileErr' = ""
                /\ profileMsg' = "Password changed."
    /\ UNCHANGED <<now, storeVars, histVars, calVars, upVars, user, route, authVars,
                   taskVars, chatVars>>

TempPassword == <<"T", "e", "m", "p", "@", "1", "2", "3">>

\* AdminView.resetPassword, for the account selected in the Manage dialog
ResetPassword(email) ==
    /\ ~AuthShown
    /\ route = "admin"
    /\ Me.role = "Admin"
    /\ \E i \in 1..Len(users) : users[i].email = email
    /\ LET Upd(u) == IF u.email = email THEN [u EXCEPT !.password = TempPassword] ELSE u
       IN  users' = [i \in 1..Len(users) |-> Upd(users[i])]
    /\ UNCHANGED <<now, storeVars, viewVars, user, route, authVars, taskVars, chatVars>>

\* AdminView.toggleActive, for the account selected in the Manage dialog
ToggleActive(email) ==
    /\ ~AuthShown
    /\ route = "admin"
    /\ Me.role = "Admin"
    /\ \E i \in 1..Len(users) : users[i].email = email
    /\ LET Upd(u) ==
               IF u.email = email
               THEN [u EXCEPT !.active = IF u.active = FALSE THEN TRUE ELSE FALSE]
               ELSE u
       IN  users' = [i \in 1..Len(users) |-> Upd(users[i])]
    /\ UNCHANGED <<now, storeVars, viewVars, user, route, authVars, taskVars, chatVars>>

---------------------------------------------------------------------------
(* The clock *)

\* time passes, up to tick `last`
Tick(last) ==
    /\ now < last
    /\ now' = now + 1
    /\ UNCHANGED <<users, user, route, authVars, taskVars, chatVars, storeVars, viewVars>>

---------------------------------------------------------------------------
(* Specification of the authentication screen: first run, seeded accounts list *)

DefaultChat ==
    [channels |-> <<[id |-> General, name |-> "General", type |-> "Channel"]>>,
     messages |-> <<>>]

\* the state of App, Auth and Login after the page has loaded with accounts list us,
\* tasks store ts and chat state cs, in a browser with (uuid) or without crypto.randomUUID
Loaded(us, ts, cs, uuid) ==
    /\ now = 0
    /\ users = us
    /\ user = Null
    /\ route = "login"
    /\ mode = "login"
    /\ attempts = 0
    /\ lockedUntil = Null
    /\ locked = FALSE
    /\ lockHist = Null
    /\ tasks = ts
    /\ assigneeFilter = <<>>
    /\ statusFilter = ""
    /\ showModal = FALSE
    /\ editing = Null
    /\ chatState = cs
    /\ sel = General
    /\ threadMsgs = <<>>
    /\ randomUUID = uuid
    /\ error = ""
    /\ ok = ""
    /\ profileErr = ""
    /\ profileMsg = ""
    /\ items = <<>>
    /\ editId = Null
    /\ notesOpen = FALSE
    /\ cursor = Null
    /\ modal = Null
    /\ predictions = <<>>
    /\ current = Null
    /\ file = Null
    /\ uploadError = ""
    /\ progress = 0
    /\ stage = "idle"
    /\ result = Null
    /\ runs = <<>>
    /\ loginRole = "Doctor"

\* the notes store {} of a first run
NoNotes == [k \in {} |-> [notes |-> <<>>, tags |-> <<>>]]

\* the stores that useLocalJson reads: notes store nm and events store ev, in time zone z
Saved(nm, ev, z) ==
    /\ notesMap = nm
    /\ events = ev
    /\ tz = z

Init == Loaded(SeedUsers, <<>>, DefaultChat, TRUE) /\ Saved(NoNotes, <<>>, 0)

Next ==
    \/ \E e \in LoginEmails, p \in LoginPasswords : LoginSubmit(e, p)
    \/ LoginType
    \/ GoRegister
    \/ GoLogin
    \/ \E n \in RegisterNames, e \in RegisterEmails, p \in RegisterPasswords, r \in Roles :
          RegisterSubmit(n, e, p, r)
    \/ Logout
    \/ \E r \in {"dashboard", "admin"} : Navigate(r)
    \/ \E e \in RegisterEmails : ToggleActive(e)
    \/ Tick(MaxNow)

Spec == Init /\ [][Next]_vars

---------------------------------------------------------------------------
(* Specification of the task board: an accounts list saved by an earlier visit *)

Lab2Email == <<"m", "@", "x">>

TaskUsers ==
    << [email |-> AdminEmail, password |-> AdminPassword, name |-> <<"A">>,
        role |-> "Admin", active |-> TRUE],
       [email |-> DocEmail, password |-> Pw6, name |-> <<"D">>,
        role |-> "Doctor", active |-> TRUE],
       [email |-> LabEmail, password |-> Pw6, name |-> <<"L">>,
        role |-> "Lab Staff", active |-> TRUE],
       [email |-> Lab2Email, password |-> Pw6, name |-> <<"M">>,
        role |-> "Lab Staff", active |-> TRUE] >>

InitTasks == Loaded(TaskUsers, <<>>, DefaultChat, TRUE) /\ Saved(NoNotes, <<>>, 0)

NextTasks ==
    \/ \E i \in 1..Len(users) : LoginSubmit(users[i].email, users[i].password)
    \/ Logout
    \/ \E r \in {"dashboard", "tasks"} : Navigate(r)
    \/ \E f \in AssigneeFilterOptions : SetAssigneeFilter(f)
    \/ \E f \in {"", "Done"} : SetStatusFilter(f)
    \/ OpenNewTask
    \/ \E t \in Rows : OpenEditTask(t)
    \/ CloseModal
    \/ \E ti \in TitleInputs, a \in AssigneeInputs, st \in Statuses : SaveModal(ti, a, st)
    \/ \E t \in Rows : RemoveTask(t)
    \/ \E t \in Rows, st \in Statuses : SelectStatus(t, st)
    \/ \E t \in Rows : MarkDone(t)
    \/ Tick(MaxClock)

SpecTasks == InitTasks /\ [][NextTasks]_vars

---------------------------------------------------------------------------
(* Specification of the chat *)

ChatUsers == SubSeq(TaskUsers, 1, 2)

InitChat ==
    \E uuid \in BOOLEAN : Loaded(ChatUsers, <<>>, DefaultChat, uuid) /\ Saved(NoNotes, <<>>, 0)

NextChat ==
    \/ \E i \in 1..Len(users) : LoginSubmit(users[i].email, users[i].password)
    \/ Logout
    \/ \E r \in {"chat", "profile"} : Navigate(r)
    \/ \E id \in ThreadIds : SelectThread(id)
    \/ \E tx \in TextInputs : Send(tx)
    \/ \E n \in NameInputs : SaveName(n)
    \/ Tick(MaxClock)

SpecChat == InitChat /\ [][NextChat]_vars

---------------------------------------------------------------------------
(* Claims about the lockout of the login form *)

\* the account that a submission of (email, pass) finds is not deactivated
FindsActive(email, pass) ==
    /\ FindAccount(users, email, pass) # Null
    /\ FindAccount(users, email, pass)[1].active # FALSE

\* C1: in one mounted login form the third failed submission sets lockedUntil to 60
\* minutes after it; while the time is before lockedUntil every submission, also one
\* with the correct credentials of an active account, changes nothing; and a
\* submission with correct credentials of an active account after fewer than three
\* failures starts the session of that account and sets no lockout.
C1_LockoutInForm ==
    [][\A e \in LoginEmails, p \in LoginPasswords :
          LoginSubmit(e, p) =>
             /\ (attempts = 2 /\ FindAccount(users, e, p) = Null)
                    => lockedUntil' = Some(DateNow + LockoutMs)
             /\ (attempts >= 3 /\ lockedUntil # Null /\ DateNow < lockedUntil[1])
                    => UNCHANGED vars
             /\ (attempts < 3 /\ FindsActive(e, p))
                    => /\ lockedUntil = Null
                       /\ user' = Some(SessionOf(FindAccount(users, e, p)[1]))
                       /\ route' = "dashboard"
                       /\ lockHist' = lockHist
      ]_vars

\* C1 witness: the form is locked after three failures, before the expiry, and the
\* correct credentials of the active seed account can be submitted
C1_Witness ==
    /\ AuthShown /\ mode = "login"
    /\ attempts = 3
    /\ lockedUntil # Null /\ DateNow < lockedUntil[1]
    /\ FindsActive(AdminEmail, AdminPassword)
    /\ now > 0

\* C2: once a lockout has been set since the page was loaded, no step before its
\* expiry starts a session, whatever happened on the authentication screen in between.
C2_LockoutOutlivesForm ==
    [][(lockHist # Null /\ DateNow < lockHist[1] /\ user = Null) => user' = Null]_vars

---------------------------------------------------------------------------
(* Specification of the task list: a tasks store saved by an earlier visit *)

MaxStore == 2   \* tasks in the saved store

SavedTasks ==
    [id : {String(MsPerTick)},
     title : {<<"T">>},
     description : {<<>>},
     assignee : {LabEmail, Lab2Email},
     priority : {"Medium"},
     due : {<<>>},
     status : Statuses,
     createdAt : {toISOString(MsPerTick)},
     updatedAt : {toISOString(MsPerTick)},
     createdBy : {AdminEmail}]

SavedStores == UNION {[1..n -> SavedTasks] : n \in 0..MaxStore}

InitBoard ==
    \E st \in SavedStores : Loaded(TaskUsers, st, DefaultChat, TRUE) /\ Saved(NoNotes, <<>>, 0)

NextBoard ==
    \/ \E i \in 1..Len(users) : LoginSubmit(users[i].email, users[i].password)
    \/ Logout
    \/ \E r \in {"dashboard", "tasks"} : Navigate(r)
    \/ \E f \in AssigneeFilterOptions : SetAssigneeFilter(f)
    \/ \E f \in {""} \cup Statuses : SetStatusFilter(f)

SpecBoard == InitBoard /\ [][NextBoard]_vars

---------------------------------------------------------------------------
(* Claims about the task board *)

FilterEmails == {<<>>} \cup {users[i].email : i \in 1..Len(users)}

\* C3: whatever the assignee and status filters, the task list of a Lab Staff session
\* holds no task assigned to another account, and with empty filters the list of a
\* session of any other role is the whole store.
C3_LabStaffSeesOwnTasks ==
    user # Null =>
        /\ Me.role = "Lab Staff" =>
              \A af \in FilterEmails, sf \in {""} \cup Statuses :
                 \A t \in Range(VisibleTasks(tasks, Me, af, sf)) : t.assignee = Me.email
        /\ Me.role # "Lab Staff" => VisibleTasks(tasks, Me, <<>>, "") = tasks

\* C3 witness: a Lab Staff session looks at the board while the store holds a task of
\* its own and a task assigned to another account
C3_Witness ==
    /\ TasksShown
    /\ Me.role = "Lab Staff"
    /\ \E t \in Range(tasks) : t.assignee = Me.email
    /\ \E t \in Range(tasks) : t.assignee # Me.email

\* C4: no two tasks of the store have the same id.
C4_UniqueTaskIds ==
    \A i, j \in 1..Len(tasks) : i # j => tasks[i].id # tasks[j].id

\* t and t2 agree on every field but status and updatedAt
SameButStatus(t, t2) ==
    [t EXCEPT !.status = "", !.updatedAt = <<>>] = [t2 EXCEPT !.status = "", !.updatedAt = <<>>]

\* C5: a step of a Lab Staff session changes the status of no task assigned to another
\* account, and a status change by the assignee rewrites the status and updatedAt of
\* that one task only.
C5_StatusChangeByAssigneeOnly ==
    [][(user # Null /\ user' = user /\ Me.role = "Lab Staff") =>
          /\ \A i \in 1..Len(tasks) :
                tasks[i].assignee # Me.email =>
                   /\ Len(tasks') = Len(tasks)
                   /\ tasks'[i].status = tasks[i].status
          /\ \A t \in Rows, st \in Statuses :
                SelectStatus(t, st) =>
                   \E i \in 1..Len(tasks) :
                      /\ tasks[i] = t
                      /\ tasks' = [tasks EXCEPT ![i].status = st,
                                                ![i].updatedAt = toISOString(DateNow)]
      ]_vars

\* C6: a task that a step of a session deletes, or changes in a field other than status
\* and updatedAt, was created by the session's account unless the session is an Admin's.
C6_EditDeleteByAdminOrCreator ==
    [][(user # Null /\ user' = user) =>
          \A t \in Range(tasks) :
             (\A t2 \in Range(tasks') : ~SameButStatus(t, t2))
                => (Me.role = "Admin" \/ t.createdBy = Me.email)
      ]_vars

---------------------------------------------------------------------------
(* Specification of the thread view: a chat log saved by an earlier visit *)

MaxLog == 3     \* messages in the saved chat log

TsSamples == {toISOString(MsPerTick), toISOString(MsPerDay)}

SavedMessages ==
    [id : {<<"u">>, <<"v">>},
     channelId : {General, dmKey(AdminEmail, DocEmail)},
     text : {<<"h", "i">>},
     ts : TsSamples,
     user : {[email |-> DocEmail, name |-> <<"D">>, role |-> "Doctor"]}]

SavedLogs == UNION {[1..n -> SavedMessages] : n \in 0..MaxLog}

InitThread ==
    \E log \in SavedLogs :
        /\ Loaded(ChatUsers, <<>>, [DefaultChat EXCEPT !.messages = log], TRUE)
        /\ Saved(NoNotes, <<>>, 0)

NextThread ==
    \/ \E i \in 1..Len(users) : LoginSubmit(users[i].email, users[i].password)
    \/ Logout
    \/ \E r \in {"dashboard", "chat"} : Navigate(r)
    \/ \E id \in ThreadIds : SelectThread(id)

SpecThread == InitThread /\ [][NextThread]_vars

---------------------------------------------------------------------------
(* Claims about the chat *)

SampleEmails == {AdminEmail, DocEmail, LabEmail, <<"D", "@", "x">>, <<"L", "@", "x">>}

\* the key that the admin computes for the doctor, and the doctor for the admin
AdminDocKey == dmKey(AdminEmail, DocEmail)
DocAdminKey == dmKey(DocEmail, AdminEmail)

\* dmKey gives the same key for both orders of two different emails
SymmetricKeys == \A a, b \in SampleEmails : a # b => dmKey(a, b) = dmKey(b, a)

\* C7: dmKey does not depend on the order of the two emails, so both participants of a
\* direct thread compute the same thread from the message log.
C7_DmKeySymmetric ==
    /\ SymmetricKeys
    /\ ThreadOf(chatState.messages, AdminDocKey) = ThreadOf(chatState.messages, DocAdminKey)

\* C7 witness: both participants have sent a message in their direct thread
C7_Witness ==
    \E i, j \in 1..Len(chatState.messages) :
        /\ chatState.messages[i].channelId = dmKey(AdminEmail, DocEmail)
        /\ chatState.messages[j].channelId = dmKey(DocEmail, AdminEmail)
        /\ chatState.messages[i].user.email = AdminEmail
        /\ chatState.messages[j].user.email = DocEmail

\* C8: in every step the message list before the step is a prefix of the list after it.
C8_AppendOnly ==
    [][/\ Len(chatState'.messages) >= Len(chatState.messages)
       /\ SubSeq(chatState'.messages, 1, Len(chatState.messages)) = chatState.messages
      ]_vars

\* C8 witness: the log holds two messages, the first from an account whose name has
\* been changed since
C8_Witness ==
    /\ Len(chatState.messages) = 2
    /\ chatState.messages[1] # chatState.messages[2]
    /\ \E i \in 1..Len(users) :
          /\ users[i].email = chatState.messages[1].user.email
          /\ users[i].name # chatState.messages[1].user.name

\* t is s without its leading and trailing white space
IsTrimOf(t, s) ==
    \E i \in 1..(Len(s) + 1), j \in 0..Len(s) :
        /\ t = SubSeq(s, i, j)
        /\ \A k \in 1..Len(s) : (k < i \/ k > j) => IsSpace(s[k])
        /\ t # <<>> => (~IsSpace(t[1]) /\ ~IsSpace(t[Len(t)]))

\* C9: a send of a text that is empty after trimming changes nothing; any other send
\* appends one message with the active thread id, the trimmed text, the current time
\* and the sender's email, name and role, and changes neither the channels nor the
\* earlier messages.
C9_Send ==
    [][\A tx \in TextInputs :
          Send(tx) =>
             IF \A k \in 1..Len(tx) : IsSpace(tx[k])
             THEN UNCHANGED vars
             ELSE LET old == chatState.messages
                      new == chatState'.messages
                      msg == new[Len(new)]
                  IN  /\ chatState'.channels = chatState.channels
                      /\ Len(new) = Len(old) + 1
                      /\ SubSeq(new, 1, Len(old)) = old
                      /\ msg.channelId = sel
                      /\ IsTrimOf(msg.text, tx)
                      /\ msg.ts = toISOString(DateNow)
                      /\ msg.user = [email |-> Me.email, name |-> Me.name,
                                     role |-> Me.role]
      ]_vars

\* C9 witness: the log holds a message of another thread and then a message whose text
\* was entered with white space around it
C9_Witness ==
    /\ ChatShown
    /\ Len(chatState.messages) = 2
    /\ chatState.messages[2].text = <<"h", "i">>
    /\ chatState.messages[2].channelId # chatState.messages[1].channelId

\* the indices of the stored messages of thread id
ThreadIdx(id) == {i \in 1..Len(chatState.messages) : chatState.messages[i].channelId = id}

\* the place of stored message i in its thread: behind the messages of the thread with
\* an earlier timestamp and those with the same timestamp stored before it
ThreadRank(id, i) ==
    1 + Cardinality({j \in ThreadIdx(id) :
                        \/ DateOf(chatState.messages[j].ts) < DateOf(chatState.messages[i].ts)
                        \/ /\ DateOf(chatState.messages[j].ts) = DateOf(chatState.messages[i].ts)
                           /\ j < i})

\* C10: the thread shown is made of exactly the stored messages of the selected thread,
\* in ascending order of timestamp, equal timestamps in the order of the store; and
\* the store is the same after the thread has been computed.
C10_ThreadSorted ==
    [][/\ chatState' = chatState
       /\ route' = "chat" =>
             /\ Len(threadMsgs') = Cardinality(ThreadIdx(sel)')
             /\ \A i \in ThreadIdx(sel)' :
                   threadMsgs'[ThreadRank(sel, i)'] = chatState'.messages[i]
      ]_vars

\* C10 witness: the thread shown holds two messages of equal timestamp behind an
\* earlier one that the store holds last, and the store holds another thread's message
C10_Witness ==
    /\ route = "chat"
    /\ Len(threadMsgs) = 3
    /\ threadMsgs[2].ts = threadMsgs[3].ts
    /\ threadMsgs[2] # threadMsgs[3]
    /\ threadMsgs[1] = chatState.messages[Len(chatState.messages)]
    /\ threadMsgs[1].ts # threadMsgs[2].ts

---------------------------------------------------------------------------
(* Notes and tags (HistoryView, NotesModal) *)

\* the rows that the backend returns for /api/v1/history
HistoryRows == [i \in 1..MaxRows |-> [fileName |-> <<"a">>, date |-> String(i)]]

HistoryShown == ~AuthShown /\ route = "history"

\* the fetch of HistoryView's effect resolves while the view is mounted
HistoryLoaded ==
    /\ HistoryShown
    /\ items = <<>>
    /\ items' = HistoryRows
    /\ UNCHANGED <<now, users, user, route, authVars, taskVars, chatVars, storeVars,
                   profVars, editId, calVars, upVars>>

\* the Edit button of a row: setEditId(id)
EditRow(id) ==
    /\ HistoryShown
    /\ ~Overlay
    /\ \E i \in 1..Len(items) : id = rowId(items[i])
    /\ editId' = Some(id)
    /\ UNCHANGED <<now, users, user, route, authVars, taskVars, chatVars, storeVars,
                   profVars, items, calVars, upVars>>

\* Close / Cancel of the notes modal of HistoryView
CloseNotes ==
    /\ HistoryShown
    /\ editId # Null
    /\ editId' = Null
    /\ UNCHANGED <<now, users, user, route, authVars, taskVars, chatVars, storeVars,
                   profVars, items, calVars, upVars>>

\* NotesModal.save with HistoryView's onSave, the fields holding notes and tagsInput
SaveNotes(notes, tagsInput) ==
    /\ HistoryShown
    /\ editId # Null
    /\ notesMap' = Put(notesMap, editId[1], NotesPayload(notes, tagsInput))
    /\ editId' = Null
    /\ UNCHANGED <<now, users, user, route, authVars, taskVars, chatVars, events, tz,
                   predictions, current, profVars, items, calVars, upVars>>

NotesInputs == {<<>>, <<" ", "n">>}

TagsInputs ==
    { <<>>,
      <<"a", ",", " ", "d">>,
      <<" ", "a", " ", ",", ",", "A", ",", "a">>,
      <<"d", ",", "a", " ", "d", ",", " ">> }

\* what the fields of the mounted notes modal can hold: what it was mounted with, or
\* what the user has typed
NotesFields == IF editId = Null THEN {} ELSE NotesInputs \cup {EntryOf(notesMap, editId[1]).notes}
TagsFields ==
    IF editId = Null THEN {} ELSE TagsInputs \cup {TagsPrefill(EntryOf(notesMap, editId[1]))}

---------------------------------------------------------------------------
(* Specification of the notes: first run *)

InitNotes == Loaded(ChatUsers, <<>>, DefaultChat, TRUE) /\ Saved(NoNotes, <<>>, 0)

NextNotes ==
    \/ \E i \in 1..Len(users) : LoginSubmit(users[i].email, users[i].password)
    \/ Logout
    \/ \E r \in {"dashboard", "history"} : Navigate(r)
    \/ HistoryLoaded
    \/ \E i \in 1..Len(HistoryRows) : EditRow(rowId(HistoryRows[i]))
    \/ CloseNotes
    \/ \E n \in NotesFields, t \in TagsFields : SaveNotes(n, t)

SpecNotes == InitNotes /\ [][NextNotes]_vars

---------------------------------------------------------------------------
(* Claims about notes and tags *)

\* t has no white space at its ends and is not empty
Trimmed(t) == t # <<>> /\ ~IsSpace(t[1]) /\ ~IsSpace(t[Len(t)])

\* the index of the first comma-separated piece of input whose trimmed text is t
FirstPiece(input, t) ==
    LET pieces == Split(input, ",")
    IN  CHOOSE i \in 1..Len(pieces) :
            trim(pieces[i]) = t /\ \A j \in 1..(i - 1) : trim(pieces[j]) # t

\* tags is the list of the trimmed non-empty pieces of input, each once, in the order
\* of their first occurrence
IsTagsOf(tags, input) ==
    LET pieces == Split(input, ",") IN
    /\ \A i \in 1..Len(tags) : Trimmed(tags[i])
    /\ \A i, j \in 1..Len(tags) : i # j => tags[i] # tags[j]
    /\ Range(tags) = {trim(pieces[i]) : i \in 1..Len(pieces)} \ {<<>>}
    /\ \A i, j \in 1..Len(tags) :
          i < j => FirstPiece(input, tags[i]) < FirstPiece(input, tags[j])

\* C11: the tags that a save stores are the trimmed non-empty pieces of the tags input,
\* without duplicates, first occurrences in order, letter case preserved; and every
\* stored tag is non-empty, trimmed and occurs once.
C11_TagsNormalised ==
    [][\A n \in NotesFields, t \in TagsFields :
          SaveNotes(n, t) =>
             /\ IsTagsOf(notesMap'[editId[1]].tags, t)
             /\ \A k \in DOMAIN notesMap' :
                   /\ \A i \in 1..Len(notesMap'[k].tags) : Trimmed(notesMap'[k].tags[i])
                   /\ \A i, j \in 1..Len(notesMap'[k].tags) :
                         i # j => notesMap'[k].tags[i] # notesMap'[k].tags[j]
      ]_vars

\* C11 witness: a save has stored two tags that differ only in letter case, from an
\* input with a duplicate and an empty piece
C11_Witness ==
    \E k \in DOMAIN notesMap : notesMap[k].tags = <<<<"a">>, <<"A">>>>

\* C12: a save is idempotent, re-saving the pre-filled fields leaves the entry as it
\* is, a save replaces the entry of its key only, and a key that was never saved reads
\* as the empty entry.
C12_SaveIdempotentAndLocal ==
    [][\A n \in NotesFields, t \in TagsFields :
          SaveNotes(n, t) =>
             LET id == editId[1]
                 old == EntryOf(notesMap, id)
             IN  /\ Put(notesMap', id, NotesPayload(n, t)) = notesMap'
                 /\ (n = old.notes /\ t = TagsPrefill(old)) => notesMap'[id] = old
                 /\ notesMap'[id] = NotesPayload(n, t)
                 /\ DOMAIN notesMap' = DOMAIN notesMap \cup {id}
                 /\ \A k \in DOMAIN notesMap \ {id} : notesMap'[k] = notesMap[k]
                 /\ \A i \in 1..Len(HistoryRows) :
                       rowId(HistoryRows[i]) \notin DOMAIN notesMap' =>
                          EntryOf(notesMap', rowId(HistoryRows[i]))
                             = [notes |-> <<>>, tags |-> <<>>]
      ]_vars

\* C12 witness: the editor of a saved entry with two tags holds what it was mounted
\* with, while another key holds a different entry and a third key was never saved
C12_Witness ==
    /\ editId # Null
    /\ editId[1] \in DOMAIN notesMap
    /\ Len(notesMap[editId[1]].tags) = 2
    /\ \E k \in DOMAIN notesMap : notesMap[k] # notesMap[editId[1]]
    /\ \E i \in 1..Len(items) : rowId(items[i]) \notin DOMAIN notesMap

---------------------------------------------------------------------------
(* Calendar actions (CalendarView, EventModal) *)

\* MainRouter renders CalendarView, and CalendarView passes its own role gate
CalendarShown == ~AuthShown /\ route = "calendar" /\ Me.role \in CalendarRoles

\* the <- button: setCursor(new Date(cursor.getFullYear(), cursor.getMonth() - 1, 1))
PrevMonth ==
    /\ CalendarShown
    /\ ~Overlay
    /\ MonthIndex(cursor[1], tz) > 0
    /\ cursor' = Some(NewDate(getFullYear(cursor[1], tz), getMonth(cursor[1], tz) - 1, 1, tz))
    /\ UNCHANGED <<now, users, user, route, authVars, taskVars, chatVars, storeVars,
                   profVars, histVars, modal, upVars>>

\* the -> button: setCursor(new Date(cursor.getFullYear(), cursor.getMonth() + 1, 1))
NextMonth ==
    /\ CalendarShown
    /\ ~Overlay
    /\ MonthIndex(cursor[1], tz) < MaxMonth
    /\ cursor' = Some(NewDate(getFullYear(cursor[1], tz), getMonth(cursor[1], tz) + 1, 1, tz))
    /\ UNCHANGED <<now, users, user, route, authVars, taskVars, chatVars, storeVars,
                   profVars, histVars, modal, upVars>>

\* the cells whose + button the model presses
CellInputs == {1, 7}

\* openNewForDay(ymd) from the + button of cell i: setModal({initial: {date: ymd}})
OpenNewForDay(i) ==
    /\ CalendarShown
    /\ ~Overlay
    /\ modal' = Some([id |-> Null, title |-> <<>>,
                       date |-> fmtYMD(days(cursor[1], tz)[i])])
    /\ UNCHANGED <<now, users, user, route, authVars, taskVars, chatVars, storeVars,
                   profVars, histVars, cursor, upVars>>

\* openEdit(ev) from a cell, the agenda or the table of all events
OpenEdit(ev) ==
    /\ CalendarShown
    /\ ~Overlay
    /\ ev \in Range(events)
    /\ modal' = Some([id |-> Some(ev.id), title |-> ev.title, date |-> ev.date])
    /\ UNCHANGED <<now, users, user, route, authVars, taskVars, chatVars, storeVars,
                   profVars, histVars, cursor, upVars>>

\* Close / Cancel of EventModal
CloseEventModal ==
    /\ CalendarShown
    /\ modal # Null
    /\ modal' = Null
    /\ UNCHANGED <<now, users, user, route, authVars, taskVars, chatVars, storeVars,
                   profVars, histVars, cursor, upVars>>

EventTitles == {<<" ">>, <<"T">>}

\* what the date field of the mounted modal can hold: a typed date, nothing, or what the
\* modal was mounted with
EventDates ==
    IF modal = Null THEN {}
    ELSE {<<>>, YMD(1)}
           \cup {IF modal[1].date # <<>> THEN modal[1].date ELSE fmtYMD(DateNew)}

\* EventModal.save with CalendarView's onSave, the fields holding title and date
SaveEvent(title, date) ==
    /\ CalendarShown
    /\ modal # Null
    /\ IF trim(title) = <<>> \/ date = <<>>
       THEN UNCHANGED <<events, modal>>
       ELSE /\ Len(events) < MaxEvents \/ modal[1].id # Null
            /\ events' = upsertEvent(events,
                                      [id |-> modal[1].id, title |-> trim(title),
                                       date |-> date, timeStart |-> <<>>,
                                       timeEnd |-> <<>>, location |-> <<>>,
                                       attendees |-> <<>>, description |-> <<>>],
                                      Me, DateNow)
            /\ modal' = Null
    /\ UNCHANGED <<now, users, user, route, authVars, taskVars, chatVars, notesMap, tz,
                   predictions, current, profVars, histVars, cursor, upVars>>

\* the Delete button of an event in the agenda or the table
RemoveEvent(id) ==
    /\ CalendarShown
    /\ ~Overlay
    /\ \E i \in 1..Len(events) : events[i].id = id
    /\ events' = removeEvent(events, id)
    /\ UNCHANGED <<now, users, user, route, authVars, taskVars, chatVars, notesMap, tz,
                   predictions, current, profVars, histVars, calVars, upVars>>

\* the ids of the stored events, for the Delete buttons
EventIds == {events[i].id : i \in 1..Len(events)}

---------------------------------------------------------------------------
(* Specification of the month grid: an events store saved by an earlier visit, in one of
   three time zones *)

TzOffsets == {-300, 0, 330}

SavedEvent(k, ymd) ==
    [id |-> String(k), title |-> <<"T">>, date |-> ymd, timeStart |-> <<>>,
     timeEnd |-> <<>>, location |-> <<>>, attendees |-> <<>>, description |-> <<>>,
     createdAt |-> toISOString(0), updatedAt |-> toISOString(0), createdBy |-> DocEmail]

SavedEventStores ==
    { <<>>,
      <<SavedEvent(1, YMD(0))>>,
      <<SavedEvent(1, YMD(31)), SavedEvent(2, YMD(0)), SavedEvent(3, YMD(31))>> }

InitGrid ==
    \E z \in TzOffsets, evs \in SavedEventStores :
        Loaded(ChatUsers, <<>>, DefaultChat, TRUE) /\ Saved(NoNotes, evs, z)

NextGrid ==
    \/ \E i \in 1..Len(users) : LoginSubmit(users[i].email, users[i].password)
    \/ Logout
    \/ \E r \in {"dashboard", "calendar"} : Navigate(r)
    \/ PrevMonth
    \/ NextMonth

SpecGrid == InitGrid /\ [][NextGrid]_vars

---------------------------------------------------------------------------
(* Specification of the calendar: first run, a doctor and a lab technician *)

CalUsers == SubSeq(TaskUsers, 2, 3)

InitCalendar == Loaded(CalUsers, <<>>, DefaultChat, TRUE) /\ Saved(NoNotes, <<>>, 0)

NextCalendar ==
    \/ \E i \in 1..Len(users) : LoginSubmit(users[i].email, users[i].password)
    \/ Logout
    \/ \E r \in {"dashboard", "calendar", "tasks"} : Navigate(r)
    \/ \E i \in CellInputs : OpenNewForDay(i)
    \/ \E ev \in Range(events) : OpenEdit(ev)
    \/ CloseEventModal
    \/ \E ti \in EventTitles, d \in EventDates : SaveEvent(ti, d)
    \/ \E id \in EventIds : RemoveEvent(id)
    \/ Tick(MaxClock)

SpecCalendar == InitCalendar /\ [][NextCalendar]_vars

---------------------------------------------------------------------------
(* Claims about the calendar *)

\* the local calendar date of a Date, as the triple of a YYYY-MM-DD string
LocalYMD(t, z) == <<getFullYear(t, z), getMonth(t, z) + 1, getDate(t, z)>>

\* C13: the month grid of the cursor has 42 cells of consecutive calendar days, starts
\* on the Sunday on or before the first day of the cursor's month, and holds every day
\* of that month exactly once.
C13_MonthGrid ==
    cursor # Null =>
        \A g \in {days(cursor[1], tz)},
           y \in {getFullYear(cursor[1], tz)},
           m \in {getMonth(cursor[1], tz)} :
            /\ Len(g) = 42
            /\ \A i \in 1..41 : LocalDay(g[i + 1], tz) = LocalDay(g[i], tz) + 1
            /\ getDay(g[1], tz) = 0
            /\ LocalDay(g[1], tz) <= DayNumber(y, m, 1)
            /\ DayNumber(y, m, 1) < LocalDay(g[1], tz) + 7
            /\ \A d \in 1..DaysInMonth(y, m) :
                  \A n \in {DayNumber(y, m, d)} :
                      /\ Cardinality({i \in 1..42 : LocalDay(g[i], tz) = n}) = 1
                      /\ \A i \in 1..42 :
                            LocalDay(g[i], tz) = n => LocalYMD(g[i], tz) = <<y, m + 1, d>>

\* C13 witness: the cursor is in February of a leap year, in a time zone east of UTC
C13_Witness ==
    /\ cursor # Null
    /\ tz > 0
    /\ getFullYear(cursor[1], tz) = 1972
    /\ getMonth(cursor[1], tz) = 1

\* C14: the events attached to a cell of the grid are the stored events whose date is
\* the local calendar date that the cell displays.
C14_EventsOnTheirDay ==
    cursor # Null =>
        \A g \in {days(cursor[1], tz)} :
            \A i \in 1..42 :
                \A shown \in {LocalYMD(g[i], tz)} :
                    LET OnShown(ev) == ev.date = shown
                    IN  todays(events, g[i]) = SelectSeq(events, OnShown)

\* C15: a Lab Staff session never has the calendar open, no step of a Lab Staff session
\* changes the events store, and every step that changes it is taken in a session
\* whose role is Admin, Doctor or Researcher.
C15_CalendarRoleGate ==
    [][/\ (user # Null /\ Me.role = "Lab Staff") => (~CalendarShown /\ events' = events)
       /\ events' # events => (user # Null /\ Me.role \in CalendarRoles)
      ]_vars

\* C15 witness: a Lab Staff session, opened after a doctor created an event
C15_Witness ==
    /\ user # Null
    /\ Me.role = "Lab Staff"
    /\ route = "tasks"
    /\ events # <<>>

---------------------------------------------------------------------------
(* Claims about accounts *)

Deactivated == "This account is deactivated. Contact admin."

\* the accounts list has an account with this email that is deactivated
IsDeactivated(email) ==
    \E i \in 1..Len(users) : users[i].email = email /\ users[i].active = FALSE

\* C16: submitting the login form with the email of a deactivated account fails with
\* the deactivation message, whatever the password, and does not log in.
C16_DeactivatedLogin ==
    [][\A e \in LoginEmails, p \in LoginPasswords :
          (LoginSubmit(e, p) /\ ~locked /\ IsDeactivated(e)) =>
             (error' = Deactivated /\ user' = Null)
      ]_vars

\* C17: a registration with a stored email fails with the duplicate message, one with
\* a password of fewer than 6 characters with the weak-password message, both without
\* changing the accounts list; any other registration appends one active account with
\* the chosen role; and the stored emails stay pairwise different.
C17_Registration ==
    [][/\ \A n \in RegisterNames, e \in RegisterEmails, p \in RegisterPasswords,
             r \in Roles :
             RegisterSubmit(n, e, p, r) =>
                IF \E i \in 1..Len(users) : users[i].email = e
                THEN error' = "Email already exists" /\ users' = users
                ELSE IF Len(p) < 6
                THEN error' = "Password must be >= 6 characters" /\ users' = users
                ELSE /\ error' = ""
                     /\ Len(users') = Len(users) + 1
                     /\ SubSeq(users', 1, Len(users)) = users
                     /\ users'[Len(users')] =
                           [name |-> n, email |-> e, password |-> p, role |-> r,
                            active |-> TRUE]
       /\ \A i, j \in 1..Len(users') : i # j => users'[i].email # users'[j].email
      ]_vars

\* C17 witness: after a registration has succeeded, a second one with a stored email
\* has been rejected
C17_Witness ==
    /\ mode = "register"
    /\ Len(users) = 2
    /\ error = "Email already exists"

---------------------------------------------------------------------------
(* Specification of the profile page: an accounts list saved by an earlier visit *)

Pw7 == <<"p", "a", "t", "h", "o", "1", "2">>

CurrentInputs == {AdminPassword, Pw6}
NewInputs == {Pw5, Pw6, Pw7}

InitProfile == Loaded(ChatUsers, <<>>, DefaultChat, TRUE) /\ Saved(NoNotes, <<>>, 0)

NextProfile ==
    \/ \E i \in 1..Len(users) : LoginSubmit(users[i].email, users[i].password)
    \/ Logout
    \/ \E r \in {"dashboard", "profile", "admin"} : Navigate(r)
    \/ \E n \in NameInputs : SaveName(n)
    \/ \E c \in CurrentInputs, n \in NewInputs, k \in NewInputs : ChangePassword(c, n, k)
    \/ \E i \in 1..Len(users) : ResetPassword(users[i].email)

SpecProfile == InitProfile /\ [][NextProfile]_vars

\* the stored password of the session's account
MyPassword == LET i == CHOOSE k \in 1..Len(users) : users[k].email = Me.email
              IN  users[i].password

\* C18: changePassword fails with the wrong-current-password message when the entered
\* current password is not the stored one, else with the weak-password message when
\* the new one has fewer than 6 characters, else with the mismatch message when new
\* and confirm differ, each time leaving the accounts list unchanged; otherwise it
\* changes the password of the session's account to the new value and nothing else.
C18_ChangePassword ==
    [][\A c \in CurrentInputs, n \in NewInputs, k \in NewInputs :
          ChangePassword(c, n, k) =>
             IF MyPassword # c
             THEN profileErr' = "Current password is incorrect" /\ users' = users
             ELSE IF Len(n) < 6
             THEN profileErr' = "New password must be >= 6 characters" /\ users' = users
             ELSE IF n # k
             THEN profileErr' = "New passwords do not match" /\ users' = users
             ELSE /\ profileErr' = ""
                  /\ Len(users') = Len(users)
                  /\ \A i \in 1..Len(users) :
                        IF users[i].email = Me.email
                        THEN users'[i] = [users[i] EXCEPT !.password = n]
                        ELSE users'[i] = users[i]
                  /\ user' = user
      ]_vars

\* C18 witness: the session's account has the new password after a successful change,
\* and the other account still has its own
C18_Witness ==
    /\ ~AuthShown
    /\ route = "profile"
    /\ profileMsg = "Password changed."
    /\ MyPassword = Pw7
    /\ \E i \in 1..Len(users) : users[i].email # Me.email /\ users[i].password # Pw7

---------------------------------------------------------------------------
(* Upload and prediction (UploadFlow, ResultsCard, MainRouter upload case) *)

UploadShown == ~AuthShown /\ route = "upload"

\* the files that the user picks
Files ==
    { [name |-> <<"a", ".", "c", "s", "v">>, size |-> 1024],
      [name |-> <<"a", ".", "p", "D", "f">>, size |-> 1024],
      [name |-> <<"a", ".", "t", "x", "t">>, size |-> 1024],
      [name |-> <<"a", ".", "f", "a">>, size |-> 5 * 1024 * 1024 + 1] }

\* name ends in "." ext, letter case ignored
HasExt(name, ext) ==
    /\ Len(name) > Len(ext)
    /\ SubSeq(toLowerCase(name), Len(name) - Len(ext), Len(name)) = <<".">> \o ext

\* /\.(fasta|fa|csv|pdf)$/i.test(f.name)
FormatOk(f) ==
    \/ HasExt(f.name, <<"f", "a", "s", "t", "a">>)
    \/ HasExt(f.name, <<"f", "a">>)
    \/ HasExt(f.name, <<"c", "s", "v">>)
    \/ HasExt(f.name, <<"p", "d", "f">>)

\* what a file dialog or a drop hands to onFile: a file or nothing
Picks == {Null} \cup {Some(f) : f \in Files}

\* UploadFlow.onFile(f) for a file picked or dropped
OnFile(f) ==
    /\ UploadShown
    /\ ~Overlay
    /\ IF f = Null
       THEN uploadError' = "" /\ file' = file
       ELSE IF ~FormatOk(f[1])
       THEN uploadError' = "Invalid format. Use FASTA/CSV/PDF" /\ file' = Null
       ELSE IF f[1].size > 5 * 1024 * 1024
       THEN uploadError' = "File too large (>5MB)" /\ file' = Null
       ELSE uploadError' = "" /\ file' = f
    /\ UNCHANGED <<now, users, user, route, authVars, taskVars, chatVars, storeVars,
                   profVars, histVars, calVars, notesOpen, progress, stage, result, runs>>

\* UploadFlow.start up to its first await: the Start Analysis button is enabled unless
\* no file is selected or the stage is "predicting".  The call keeps the file and the
\* onComplete of the render it was made in, which holds that render's predictions.
Start ==
    /\ UploadShown
    /\ ~Overlay
    /\ file # Null
    /\ stage # "predicting"
    /\ Len(runs) < MaxRuns
    /\ Len(predictions) < MaxPreds
    /\ result' = Null
    /\ stage' = "uploading"
    /\ progress' = 0
    /\ notesOpen' = FALSE
    /\ runs' = Append(runs, [phase |-> "uploading", file |-> file[1],
                              preds |-> predictions, live |-> TRUE,
                              ticking |-> FALSE, pct |-> 0])
    /\ UNCHANGED <<now, users, user, route, authVars, taskVars, chatVars, storeVars,
                   profVars, histVars, calVars, file, uploadError>>

\* an animation frame of fakeProgress before the 600 ms are over: set(p)
Frame(i, p) ==
    /\ i \in 1..Len(runs)
    /\ runs[i].phase = "uploading"
    /\ runs[i].live
    /\ progress # p
    /\ progress' = p
    /\ UNCHANGED <<now, users, user, route, authVars, taskVars, chatVars, storeVars,
                   profVars, histVars, calVars, notesOpen, file, uploadError, stage,
                   result, runs>>

\* the last frame of fakeProgress and the part of start up to `await sendToBackend`:
\* the stage becomes "predicting", the interval timer is started and the request sent.
\* The setters of a component that is no longer mounted have no effect.
Uploaded(i) ==
    /\ i \in 1..Len(runs)
    /\ runs[i].phase = "uploading"
    /\ runs' = [runs EXCEPT ![i] = [@ EXCEPT !.phase = "requested", !.ticking = TRUE,
                                              !.pct = 15]]
    /\ IF runs[i].live
       THEN stage' = "predicting" /\ progress' = 15
       ELSE UNCHANGED <<stage, progress>>
    /\ UNCHANGED <<now, users, user, route, authVars, taskVars, chatVars, storeVars,
                   profVars, histVars, calVars, notesOpen, file, uploadError, result>>

\* the interval timer of call i fires: pct = Math.min(95, pct + 5); setProgress(pct)
TimerFire(i) ==
    /\ i \in 1..Len(runs)
    /\ runs[i].ticking
    /\ runs[i].pct < MaxPct
    /\ LET pct == IF runs[i].pct + 5 > 95 THEN 95 ELSE runs[i].pct + 5
       IN  /\ runs' = [runs EXCEPT ![i] = [@ EXCEPT !.pct = pct]]
           /\ progress' = IF runs[i].live THEN pct ELSE progress
    /\ UNCHANGED <<now, users, user, route, authVars, taskVars, chatVars, storeVars,
                   profVars, histVars, calVars, notesOpen, file, uploadError, stage,
                   result>>

\* the runs without run i
Without(rs, i) == SubSeq(rs, 1, i - 1) \o SubSeq(rs, i + 1, Len(rs))

\* the date that the backend puts into its answer
ResponseDates == {<<"1">>}

\* sendToBackend resolves for call i with payload: the timer of the call is cleared,
\* the result is shown and MainRouter's onComplete stores it
RespondOk(i, date) ==
    /\ i \in 1..Len(runs)
    /\ runs[i].phase = "requested"
    /\ LET payload == [fileName |-> runs[i].file.name, date |-> date]
       IN  /\ IF runs[i].live
              THEN progress' = 100 /\ result' = Some(payload) /\ stage' = "done"
              ELSE UNCHANGED <<progress, result, stage>>
           /\ current' = Some(payload)
           /\ predictions' = <<payload>> \o runs[i].preds
    /\ runs' = Without(runs, i)
    /\ UNCHANGED <<now, users, user, route, authVars, taskVars, chatVars, notesMap, events,
                   tz, profVars, histVars, calVars, notesOpen, file, uploadError>>

\* the messages of the errors that sendToBackend throws
FailMessages == {"Backend error 500", "Failed to fetch"}

\* sendToBackend rejects for call i: the catch block of start; the timer of the call,
\* which is local to the try block, is not cleared
RespondFail(i, message) ==
    /\ i \in 1..Len(runs)
    /\ runs[i].phase = "requested"
    /\ runs' = [runs EXCEPT ![i] = [@ EXCEPT !.phase = "failed"]]
    /\ IF runs[i].live
       THEN /\ uploadError' = (IF message = "" THEN "Prediction failed" ELSE message)
            /\ stage' = "idle"
            /\ progress' = 0
            /\ notesOpen' = FALSE
       ELSE UNCHANGED <<uploadError, stage, progress, notesOpen>>
    /\ UNCHANGED <<now, users, user, route, authVars, taskVars, chatVars, storeVars,
                   profVars, histVars, calVars, file, result>>

\* ResultsCard is rendered
ResultShown == UploadShown /\ stage = "done" /\ result # Null

\* the notes button of ResultsCard
OpenResultNotes ==
    /\ ResultShown
    /\ ~Overlay
    /\ notesOpen' = TRUE
    /\ UNCHANGED <<now, users, user, route, authVars, taskVars, chatVars, storeVars,
                   profVars, histVars, calVars, file, uploadError, progress, stage,
                   result, runs>>

\* Close / Cancel of the notes modal of ResultsCard
CloseResultNotes ==
    /\ ResultShown
    /\ notesOpen
    /\ notesOpen' = FALSE
    /\ UNCHANGED <<now, users, user, route, authVars, taskVars, chatVars, storeVars,
                   profVars, histVars, calVars, file, uploadError, progress, stage,
                   result, runs>>

\* NotesModal.save with ResultsCard's onSave: the key is that of the result shown
SaveResultNotes(notes, tagsInput) ==
    /\ ResultShown
    /\ notesOpen
    /\ notesMap' = Put(notesMap, rowId(result[1]), NotesPayload(notes, tagsInput))
    /\ notesOpen' = FALSE
    /\ UNCHANGED <<now, users, user, route, authVars, taskVars, chatVars, events, tz,
                   predictions, current, profVars, histVars, calVars, file, uploadError,
                   progress, stage, result, runs>>

---------------------------------------------------------------------------
(* Specification of the upload view: first run *)

\* the administrator alone
UploadUsers == SubSeq(SeedUsers, 1, 1)

InitUpload == Loaded(UploadUsers, <<>>, DefaultChat, TRUE) /\ Saved(NoNotes, <<>>, 0)

NextUpload ==
    \/ \E i \in 1..Len(users) : LoginSubmit(users[i].email, users[i].password)
    \/ Logout
    \/ \E r \in {"dashboard", "upload"} : Navigate(r)
    \/ \E f \in Picks : OnFile(f)
    \/ Start
    \/ \E i \in 1..Len(runs) : Frame(i, 50)
    \/ \E i \in 1..Len(runs) : Uploaded(i)
    \/ \E i \in 1..Len(runs) : TimerFire(i)
    \/ \E i \in 1..Len(runs), d \in ResponseDates : RespondOk(i, d)
    \/ \E i \in 1..Len(runs), m \in FailMessages : RespondFail(i, m)
    \/ OpenResultNotes
    \/ CloseResultNotes
    \/ SaveResultNotes(<<"n">>, <<"a">>)

SpecUpload == InitUpload /\ [][NextUpload]_vars

---------------------------------------------------------------------------
(* Claims about uploads *)

\* the calls of start whose backend request has been sent and has not returned
InFlight == {i \in 1..Len(runs) : runs[i].phase = "requested"}

\* C19: while an upload started from the upload view is outstanding no second one can
\* be started: at no time are two backend prediction requests in flight at once.
C19_OneRequestInFlight == Cardinality(InFlight) <= 1

\* a step of the upload path: picking a file, start and everything that start does later
UploadStep ==
    \/ \E f \in Picks : OnFile(f)
    \/ Start
    \/ \E i \in 1..Len(runs) : Frame(i, 50) \/ Uploaded(i) \/ TimerFire(i)
    \/ \E i \in 1..Len(runs), m \in FailMessages : RespondFail(i, m)
    \/ \E i \in 1..Len(runs), d \in ResponseDates : RespondOk(i, d)

\* the upload view shows the failure of a backend request
FailureShown == UploadShown /\ stage = "idle" /\ uploadError \in FailMessages

\* C20: the upload path never changes the tasks, events, chat, notes or accounts
\* stores; a failing backend request changes neither the prediction history nor the
\* current result and leaves the view that started it with stage = idle, progress = 0
\* and the error message set, and the view ends in that state: while it shows the
\* failure, progress stays 0.
C20_UploadFailure ==
    [][ /\ UploadStep => UNCHANGED <<tasks, events, chatState, notesMap, users>>
        /\ \A i \in 1..Len(runs), m \in FailMessages :
              RespondFail(i, m) =>
                  /\ UNCHANGED <<predictions, current>>
                  /\ runs[i].live =>
                        stage' = "idle" /\ progress' = 0 /\ uploadError' = m
        /\ FailureShown' => progress' = 0 ]_vars

---------------------------------------------------------------------------
(* JSON: values, texts, JSON.stringify and JSON.parse *)

\* JavaScript values that JSON can carry; an object is the list of its members
JNull == [t |-> "null"]
JBool(b) == [t |-> "bool", v |-> b]
JNum(n) == [t |-> "num", v |-> n]
JStr(str) == [t |-> "str", v |-> str]
JArr(elems) == [t |-> "arr", v |-> elems]
JObj(members) == [t |-> "obj", v |-> members]

\* a JSON text is the list of its tokens
Tok(t) == [t |-> t]
NumTok(n) == [t |-> "num", v |-> n]
StrTok(str) == [t |-> "str", v |-> str]

\* the texts parts[1], parts[2], ... with a comma between them
RECURSIVE Commas(_)
Commas(parts) ==
    IF parts = <<>> THEN <<>>
    ELSE IF Len(parts) = 1 THEN parts[1]
    ELSE parts[1] \o <<Tok(",")>> \o Commas(Tail(parts))

\* JSON.stringify(j)
RECURSIVE JSONstringify(_)
JSONstringify(j) ==
    CASE j.t = "null" -> <<Tok("null")>>
      [] j.t = "bool" -> <<Tok(IF j.v THEN "true" ELSE "false")>>
      [] j.t = "num" -> <<NumTok(j.v)>>
      [] j.t = "str" -> <<StrTok(j.v)>>
      [] j.t = "arr" ->
            <<Tok("[")>> \o Commas([i \in 1..Len(j.v) |-> JSONstringify(j.v[i])])
                         \o <<Tok("]")>>
      [] j.t = "obj" ->
            <<Tok("{")>>
              \o Commas([i \in 1..Len(j.v) |->
                            <<StrTok(j.v[i][1]), Tok(":")>> \o JSONstringify(j.v[i][2])])
              \o <<Tok("}")>>

\* the outcome of parsing a prefix of a text
Parsed(val, rest) == [ok |-> TRUE, val |-> val, rest |-> rest]
SyntaxError == [ok |-> FALSE]

\* the next token of ts is t
NextIs(ts, t) == ts # <<>> /\ Head(ts).t = t

\* obj[key] = val: a member that exists keeps its place
Assign(members, key, val) ==
    IF \E i \in 1..Len(members) : members[i][1] = key
    THEN [i \in 1..Len(members) |->
             IF members[i][1] = key THEN <<key, val>> ELSE members[i]]
    ELSE Append(members, <<key, val>>)

RECURSIVE ParseValue(_), ParseElements(_, _), ParseMembers(_, _)

\* the value that a text starts with
ParseValue(ts) ==
    IF ts = <<>> THEN SyntaxError
    ELSE LET h == Head(ts) IN
         CASE h.t = "null" -> Parsed(JNull, Tail(ts))
           [] h.t = "true" -> Parsed(JBool(TRUE), Tail(ts))
           [] h.t = "false" -> Parsed(JBool(FALSE), Tail(ts))
           [] h.t = "num" -> Parsed(JNum(h.v), Tail(ts))
           [] h.t = "str" -> Parsed(JStr(h.v), Tail(ts))
           [] h.t = "[" ->
                 IF NextIs(Tail(ts), "]") THEN Parsed(JArr(<<>>), Tail(Tail(ts)))
                 ELSE ParseElements(Tail(ts), <<>>)
           [] h.t = "{" ->
                 IF NextIs(Tail(ts), "}") THEN Parsed(JObj(<<>>), Tail(Tail(ts)))
                 ELSE ParseMembers(Tail(ts), <<>>)
           [] OTHER -> SyntaxError

\* the elements of an array after "[" or ","
ParseElements(ts, acc) ==
    LET r == ParseValue(ts) IN
    IF ~r.ok THEN SyntaxError
    ELSE IF NextIs(r.rest, ",") THEN ParseElements(Tail(r.rest), Append(acc, r.val))
    ELSE IF NextIs(r.rest, "]") THEN Parsed(JArr(Append(acc, r.val)), Tail(r.rest))
    ELSE SyntaxError

\* the members of an object after "{" or ","
ParseMembers(ts, acc) ==
    IF ~(NextIs(ts, "str") /\ NextIs(Tail(ts), ":")) THEN SyntaxError
    ELSE LET r == ParseValue(Tail(Tail(ts))) IN
         IF ~r.ok THEN SyntaxError
         ELSE IF NextIs(r.rest, ",")
         THEN ParseMembers(Tail(r.rest), Assign(acc, Head(ts).v, r.val))
         ELSE IF NextIs(r.rest, "}")
         THEN Parsed(JObj(Assign(acc, Head(ts).v, r.val)), Tail(r.rest))
         ELSE SyntaxError

\* JSON.parse(text): the value, or a SyntaxError thrown
JSONparse(text) ==
    LET r == ParseValue(text) IN
    IF r.ok /\ r.rest = <<>> THEN Parsed(r.val, <<>>) ELSE SyntaxError

---------------------------------------------------------------------------
(* The stores in localStorage *)

\* the member key of object j
Member(j, key) == LET i == CHOOSE i \in 1..Len(j.v) : j.v[i][1] = key IN j.v[i][2]

\* the value j as the model holds it: strings, numbers and booleans as they are, an array
\* as a sequence, an object as a record (a function on its keys), null as Null
RECURSIVE Plain(_)
Plain(j) ==
    CASE j.t = "null" -> Null
      [] j.t = "arr" -> [i \in 1..Len(j.v) |-> Plain(j.v[i])]
      [] j.t = "obj" -> [key \in {j.v[i][1] : i \in 1..Len(j.v)} |-> Plain(Member(j, key))]
      [] OTHER -> j.v

\* an object whose properties fields hold strings, in the order of fields
StrObj(rec, fields) == JObj([i \in 1..Len(fields) |-> <<fields[i], JStr(rec[fields[i]])>>])

\* an array of strings
StrArr(strs) == JArr([i \in 1..Len(strs) |-> JStr(strs[i])])

\* the tasks store as a JavaScript value
TasksJson(ts) ==
    JArr([i \in 1..Len(ts) |->
             StrObj(ts[i], <<"id", "title", "description", "assignee", "priority", "due",
                             "status", "createdAt", "updatedAt", "createdBy">>)])

\* the events store as a JavaScript value
EventsJson(evs) ==
    JArr([i \in 1..Len(evs) |->
             JObj(StrObj(evs[i], <<"id", "title", "date", "timeStart", "timeEnd",
                                   "location">>).v
                  \o << <<"attendees", StrArr(evs[i].attendees)>> >>
                  \o StrObj(evs[i], <<"description", "createdAt", "updatedAt",
                                      "createdBy">>).v)])

\* the chat state as a JavaScript value
ChatJson(cs) ==
    JObj(<< <<"channels",
              JArr([i \in 1..Len(cs.channels) |->
                       StrObj(cs.channels[i], <<"id", "name", "type">>)])>>,
            <<"messages",
              JArr([i \in 1..Len(cs.messages) |->
                       JObj(StrObj(cs.messages[i], <<"id", "channelId", "text", "ts">>).v
                            \o << <<"user", StrObj(cs.messages[i].user,
                                                   <<"email", "name", "role">>)>> >>)])>> >>)

\* the accounts as a JavaScript value
UsersJson(us) ==
    JArr([i \in 1..Len(us) |->
             JObj(StrObj(us[i], <<"email", "password", "name", "role">>).v
                  \o << <<"active", JBool(us[i].active)>> >>)])

\* the elements of a finite set in some order
RECURSIVE SeqOf(_)
SeqOf(S) == IF S = {} THEN <<>> ELSE LET x == CHOOSE x \in S : TRUE IN <<x>> \o SeqOf(S \ {x})

\* the notes store as a JavaScript value
NotesJson(nm) ==
    LET keys == SeqOf(DOMAIN nm)
    IN  JObj([i \in 1..Len(keys) |->
                 <<keys[i], JObj(<< <<"notes", JStr(nm[keys[i]].notes)>>,
                                    <<"tags", StrArr(nm[keys[i]].tags)>> >>)>>])

\* what localStorage.getItem gives for an entry that holds the value j
Stored(j) == Some(JSONstringify(j))

useLocalJsonMut(raw, initial) == initial

\* the initial state of useLocalJson(key, initial) when localStorage.getItem(key) is raw
useLocalJson(raw, initial) ==
    IF raw = Null THEN initial
    ELSE IF raw[1] = <<>> THEN initial
    ELSE LET r == JSONparse(raw[1]) IN IF r.ok THEN r.val ELSE initial

\* the initial state of App's users when localStorage.getItem(LS_KEY) is raw
LoadUsers(raw) ==
    LET text == IF raw = Null THEN <<Tok("null")>>
                ELSE IF raw[1] = <<>> THEN <<Tok("null")>> ELSE raw[1]
        r == JSONparse(text)
    IN  IF ~r.ok THEN UsersJson(SeedUsers)
        ELSE IF r.val.t = "arr" /\ Len(r.val.v) > 0 THEN r.val
        ELSE UsersJson(SeedUsers)

---------------------------------------------------------------------------
(* Reload of the page *)

\* App and everything below it is constructed anew with the given stores; the clock, the
\* time zone and the browser stay what they are
Restart(us, ts, evs, nm, cs) ==
    /\ user' = Null
    /\ route' = "login"
    /\ mode' = "login"
    /\ LoginFresh
    /\ lockHist' = Null
    /\ predictions' = <<>>
    /\ current' = Null
    /\ assigneeFilter' = <<>>
    /\ statusFilter' = ""
    /\ showModal' = FALSE
    /\ editing' = Null
    /\ sel' = General
    /\ threadMsgs' = <<>>
    /\ profileErr' = ""
    /\ profileMsg' = ""
    /\ items' = <<>>
    /\ editId' = Null
    /\ notesOpen' = FALSE
    /\ cursor' = Null
    /\ modal' = Null
    /\ file' = Null
    /\ uploadError' = ""
    /\ progress' = 0
    /\ stage' = "idle"
    /\ result' = Null
    /\ runs' = <<>>
    /\ users' = us
    /\ tasks' = ts
    /\ events' = evs
    /\ notesMap' = nm
    /\ chatState' = cs
    /\ UNCHANGED <<now, tz, randomUUID>>

\* the page is reloaded: the effects have written every store to localStorage
\* (App.jsx:96-100, 144-146), and the initialisers read them back
Reload ==
    Restart(Plain(LoadUsers(Stored(UsersJson(users)))),
            Plain(useLocalJson(Stored(TasksJson(tasks)), JArr(<<>>))),
            Plain(useLocalJson(Stored(EventsJson(events)), JArr(<<>>))),
            Plain(useLocalJson(Stored(NotesJson(notesMap)), JObj(<<>>))),
            Plain(useLocalJson(Stored(ChatJson(chatState)), ChatJson(DefaultChat))))

---------------------------------------------------------------------------
(* Specification of the reload: an administrator fills the stores and reloads *)

\* the administrator and a Lab Staff account
ReloadUsers == <<TaskUsers[1], TaskUsers[3]>>

InitReload == Loaded(ReloadUsers, <<>>, DefaultChat, TRUE) /\ Saved(NoNotes, <<>>, 0)

NextReload ==
    \/ LoginSubmit(AdminEmail, AdminPassword)
    \/ \E r \in {"tasks", "calendar", "chat"} : Navigate(r)
    \/ OpenNewTask
    \/ SaveModal(<<"T">>, LabEmail, "Pending")
    \/ \E t \in Rows : RemoveTask(t)
    \/ OpenNewForDay(1)
    \/ SaveEvent(<<"T">>, YMD(1))
    \/ \E id \in EventIds : RemoveEvent(id)
    \/ Send(<<" ", "h", "i", " ">>)
    \/ Tick(MaxClock)
    \/ Reload

SpecReload == InitReload /\ [][NextReload]_vars

---------------------------------------------------------------------------
(* Claims about the reload *)

---------------------------------------------------------------------------
(* Specification of the startup: localStorage holds anything; the stores are the
   JavaScript values that the initialisers return *)

\* entries of localStorage: absent, the empty string, null, 5, {}, [{"a": 1}],
\* {"channels": [], "messages": []}, and two texts that are not JSON
RawSamples ==
    { Null,
      Some(<<>>),
      Some(<<Tok("null")>>),
      Some(<<NumTok(5)>>),
      Some(<<Tok("{"), Tok("}")>>),
      Some(<<Tok("["), Tok("{"), StrTok("a"), Tok(":"), NumTok(1), Tok("}"), Tok("]")>>),
      Some(<<Tok("{"), StrTok("channels"), Tok(":"), Tok("["), Tok("]"), Tok(","),
             StrTok("messages"), Tok(":"), Tok("["), Tok("]"), Tok("}")>>),
      Some(<<Tok("["), Tok("{")>>),
      Some(<<Tok("x")>>) }

InitLoad ==
    \E ru \in RawSamples, rt \in RawSamples, re \in RawSamples, rn \in RawSamples,
       rc \in RawSamples :
        /\ Loaded(LoadUsers(ru), useLocalJson(rt, JArr(<<>>)),
                  useLocalJson(rc, ChatJson(DefaultChat)), TRUE)
        /\ Saved(useLocalJson(rn, JObj(<<>>)), useLocalJson(re, JArr(<<>>)), 0)

\* the page is reloaded before anybody has logged in
ReloadStartup ==
    Restart(LoadUsers(Stored(users)),
            useLocalJson(Stored(tasks), JArr(<<>>)),
            useLocalJson(Stored(events), JArr(<<>>)),
            useLocalJson(Stored(notesMap), JObj(<<>>)),
            useLocalJson(Stored(chatState), ChatJson(DefaultChat)))

NextLoad == ReloadStartup

SpecLoad == InitLoad /\ [][NextLoad]_vars

\* object j has a property key that holds an array
HasList(j, key) ==
    \E i \in 1..Len(j.v) : j.v[i][1] = key /\ j.v[i][2].t = "arr"

\* C21: after startup, whatever the local storage entries hold, tasks and events are
\* lists, the notes store is a map, the chat state has a channels list and a messages
\* list, and the accounts store is a non-empty list.
C21_StoresLoaded ==
    /\ tasks.t = "arr"
    /\ events.t = "arr"
    /\ notesMap.t = "obj"
    /\ chatState.t = "obj" /\ HasList(chatState, "channels") /\ HasList(chatState, "messages")
    /\ users.t = "arr" /\ Len(users.v) > 0

---------------------------------------------------------------------------
(* Specification of the task creation: the administrator activates and deactivates
   Lab Staff accounts and assigns tasks *)

\* the second Lab Staff account is deactivated
AssignUsers ==
    <<TaskUsers[1], TaskUsers[3], [TaskUsers[4] EXCEPT !.active = FALSE]>>

InitAssign == Loaded(AssignUsers, <<>>, DefaultChat, TRUE) /\ Saved(NoNotes, <<>>, 0)

NextAssign ==
    \/ \E i \in 1..Len(users) : LoginSubmit(users[i].email, users[i].password)
    \/ Logout
    \/ \E r \in {"tasks", "admin"} : Navigate(r)
    \/ \E e \in {LabEmail, Lab2Email} : ToggleActive(e)
    \/ OpenNewTask
    \/ CloseModal
    \/ \E ti \in TitleInputs, a \in AssigneeInputs : SaveModal(ti, a, "Pending")
    \/ Tick(MaxClock)

SpecAssign == InitAssign /\ [][NextAssign]_vars

\* the emails of the active Lab Staff accounts
ActiveLabStaff ==
    {users[i].email : i \in {i \in 1..Len(users) :
                                users[i].role = "Lab Staff" /\ users[i].active = TRUE}}

\* C23: a task creation with an empty (after trimming) title or an empty assignee leaves
\* the tasks store unchanged; every task that is created has, at the moment of creation,
\* a trimmed non-empty title, an assignee that is the email of an active Lab Staff
\* account, createdBy equal to the session's email and createdAt equal to updatedAt.
C23_TaskCreation ==
    [][ /\ \A ti \in TitleInputs, a \in AssigneeInputs :
              (SaveModal(ti, a, "Pending") /\ (trim(ti) = <<>> \/ a = <<>>))
                  => tasks' = tasks
        /\ Len(tasks') > Len(tasks) =>
              /\ Tail(tasks') = tasks
              /\ tasks'[1].title # <<>>
              /\ trim(tasks'[1].title) = tasks'[1].title
              /\ tasks'[1].assignee \in ActiveLabStaff
              /\ tasks'[1].createdBy = Me.email
              /\ tasks'[1].createdAt = tasks'[1].updatedAt ]_vars

\* a task has been created after the administrator exchanged the active Lab Staff
\* account for the other one
C23_Witness ==
    /\ tasks # <<>>
    /\ tasks[1].assignee = Lab2Email
    /\ ActiveLabStaff = {Lab2Email}

---------------------------------------------------------------------------
(* Claims about the prediction history and the interval timer *)

\* C24: every prediction whose backend request resolved is in the prediction history
\* from its completion on, for every interleaving of uploads, completions and route
\* changes: a completion puts its prediction in front of the history and removes none.
C24_HistoryKeepsPredictions ==
    [][ \A i \in 1..Len(runs), d \in ResponseDates :
            RespondOk(i, d) =>
                /\ predictions' # <<>>
                /\ Head(predictions') = [fileName |-> runs[i].file.name, date |-> d]
                /\ Tail(predictions') = predictions ]_vars

\* the calls of start whose interval timer is running
Ticking == {i \in 1..Len(runs) : runs[i].ticking}

\* C30: the interval timer that start creates is cleared on every exit of start, success
\* or failure: no call that has finished has left its timer running, and at most one
\* such timer is live at any time.
C30_TimerCleared ==
    /\ \A i \in Ticking : runs[i].phase = "requested"
    /\ Cardinality(Ticking) <= 1

---------------------------------------------------------------------------
(* Claims about sessions and direct threads *)

\* C25: in every state with a logged-in session the accounts hold an account with the
\* session's email, and that account is active.
C25_SessionActive ==
    user # Null =>
        \E i \in 1..Len(users) : users[i].email = Me.email /\ users[i].active # FALSE

---------------------------------------------------------------------------
(* Specification of the direct threads: accounts register, log in and chat *)

\* an address that differs from DocEmail in the case of a letter
DocEmailUpper == <<"D", "@", "x">>

InitDm == Loaded(ChatUsers, <<>>, DefaultChat, TRUE) /\ Saved(NoNotes, <<>>, 0)

NextDm ==
    \/ GoRegister
    \/ GoLogin
    \/ \E e \in {DocEmail, DocEmailUpper} : RegisterSubmit(<<"E">>, e, Pw6, "Doctor")
    \/ \E i \in 1..Len(users) : LoginSubmit(users[i].email, users[i].password)
    \/ Logout
    \/ Navigate("chat")
    \/ \E id \in ThreadIds : SelectThread(id)
    \/ Send(<<"h", "i">>)

SpecDm == InitDm /\ [][NextDm]_vars

\* the unordered pairs of registered accounts, by their places in the accounts list
AccountPairs == {pr \in SUBSET (1..Len(users)) : Cardinality(pr) = 2}

\* the thread id of a pair of accounts
PairKey(pr) ==
    LET i == CHOOSE i \in pr : TRUE
        j == CHOOSE j \in pr : j # i
    IN  dmKey(users[i].email, users[j].email)

\* C26: any two different unordered pairs of registered accounts have different thread
\* ids, so the direct thread of two accounts is no direct thread of a third account.
C26_DmKeyInjective ==
    \A p \in AccountPairs, q \in AccountPairs : p # q => PairKey(p) # PairKey(q)

---------------------------------------------------------------------------
(* Claims about the login form *)

\* the lockout that was set has expired and the form has been rendered since
Reopened == lockedUntil # Null /\ DateNow >= lockedUntil[1] /\ ~locked

\* C27: the lockout follows Open -> Locked(until) -> Open: once the lockout time has
\* passed, a login with the correct credentials of an active account succeeds, and the
\* form does not become locked again before three further failed attempts (the sixth in
\* all) have been made.
C27_LockoutReopens ==
    [][ \A e \in LoginEmails, p \in LoginPasswords :
            (Reopened /\ LoginSubmit(e, p)) =>
                /\ FindsActive(e, p) => user' = Some(SessionOf(FindAccount(users, e, p)[1]))
                /\ (FindAccount(users, e, p) = Null /\ attempts + 1 < 6) =>
                       ~LockedAt(lockedUntil', DateNow) ]_vars

---------------------------------------------------------------------------
(* Specification of the login form with its "Login as" selector *)

InitLogin == Loaded(TaskUsers, <<>>, DefaultChat, TRUE) /\ Saved(NoNotes, <<>>, 0)

NextLogin ==
    \/ \E r \in Roles : SelectRole(r)
    \/ LoginType
    \/ \E i \in 1..Len(users) : \E p \in {users[i].password, Pw5} :
          LoginSubmit(users[i].email, p)
    \/ Logout
    \/ \E r \in {"dashboard", "admin"} : Navigate(r)
    \/ \E i \in 1..Len(users) : ToggleActive(users[i].email)
    \/ Tick(MaxClock)

SpecLogin == InitLogin /\ [][NextLogin]_vars

\* C28: the session of a successful login carries the name, role and email stored for
\* the matching account, and the step is the same for every value of the "Login as"
\* selector: no store changes, and everything else gets a value in which the selector
\* has no part.
C28_SelectorIgnored ==
    [][ \A i \in 1..Len(users) :
            (LoginSubmit(users[i].email, users[i].password) /\ user' # Null) =>
                LET a == FindAccount(users, users[i].email, users[i].password)[1]
                IN  /\ user' = <<[name |-> a.name, role |-> a.role, email |-> a.email]>>
                    /\ route' = "dashboard"
                    /\ attempts' = 0 /\ lockedUntil' = Null /\ locked' = FALSE
                    /\ error' = "" /\ ok' = "" /\ loginRole' = "Doctor"
                    /\ UNCHANGED <<now, users, mode, lockHist, storeVars, taskVars,
                                   chatVars, viewVars>> ]_vars

\* the selector shows Lab Staff and the administrator's credentials can be submitted
C28_Witness ==
    /\ AuthShown /\ mode = "login"
    /\ loginRole = "Lab Staff"
    /\ ~locked
    /\ attempts > 0
    /\ FindsActive(AdminEmail, AdminPassword)

---------------------------------------------------------------------------
(* Claims about the frame of task updates and deletes *)

\* the next store differs from the store at index i only, where the task keeps its id,
\* createdBy and createdAt and is stamped with the time of the update
UpdatedAt(i, id) ==
    /\ tasks[i].id = id
    /\ Len(tasks') = Len(tasks)
    /\ \A j \in 1..Len(tasks) : j # i => tasks'[j] = tasks[j]
    /\ tasks'[i].id = tasks[i].id
    /\ tasks'[i].createdBy = tasks[i].createdBy
    /\ tasks'[i].createdAt = tasks[i].createdAt
    /\ tasks'[i].updatedAt = toISOString(DateNow)

\* C29: a full edit or a status change rewrites one task, the one with the given id,
\* which keeps its id, createdBy and createdAt and gets the update's time as updatedAt,
\* while every other task and the number and order of the tasks stay; a delete takes
\* one task, the one with the given id, out of the store and leaves the others as they
\* are and in their order.
C29_UpdateFrame ==
    [][ /\ \A ti \in TitleInputs, a \in AssigneeInputs, st \in Statuses :
              (editing # Null /\ trim(ti) # <<>> /\ a # <<>> /\ SaveModal(ti, a, st)) =>
                  \E i \in 1..Len(tasks) : UpdatedAt(i, editing[1].id)
        /\ \A t \in Rows, st \in Statuses :
              (SelectStatus(t, st) \/ MarkDone(t)) =>
                  \E i \in 1..Len(tasks) : UpdatedAt(i, t.id)
        /\ \A t \in Rows :
              RemoveTask(t) =>
                  \E i \in 1..Len(tasks) : tasks[i].id = t.id /\ tasks' = Without(tasks, i)
      ]_vars

====
